---- MODULE Spec2Model ----
(***************************************************************************)
(* A model of the negotiation pipeline of yap-audio/fetch:                 *)
(*   negotiator/agent.py         NegotiationAgent (one negotiation turn)   *)
(*   negotiator/main.py          the streaming HTTP service                *)
(*   negotiator/a2a_server.py    the A2A adapter                           *)
(*   negotiator/orchestrator.py  NegotiationOrchestrator.run_negotiation   *)
(*                                                                         *)
(* Texts are sequences of one-character strings, so that the substring     *)
(* search of _extract_decision and the regular expression of               *)
(* _extract_transaction_amount are computed character by character.        *)
(* Money is an exact decimal counted in units of 0.00001 USD; the binary   *)
(* rounding of Python floats is not modelled.                              *)
(***************************************************************************)
EXTENDS Integers, Sequences, FiniteSets, TLC

\* ================================================================ state
VARIABLES
    environ,               \* os.environ of the negotiation service
    intent,                \* the intent row get_intent returns
    protocol,              \* NegotiationOrchestrator.protocol
    max_rounds,            \* run_negotiation's round limit
    pc,                    \* where run_negotiation is
    round_num,             \* the loop variable of run_negotiation
    conversation_history,  \* run_negotiation's running history
    result,                \* what run_negotiation returned (None until then)
    calls,                 \* log: the agent calls run_negotiation has made
    replies,               \* log: what each call_agent returned
    request,               \* the request in flight to an agent endpoint
    turn_pc,               \* where the agent turn (negotiate) is
    agent,                 \* the NegotiationAgent of the turn
    turn_input,            \* the arguments of negotiate
    llm_stream,            \* the text fragments the LLM has still to deliver
    full_response,         \* negotiate's accumulated text
    decision,              \* negotiate's decision ("" until it is extracted)
    transaction_amount,    \* negotiate's transaction_amount
    payment_result,        \* negotiate's payment_result
    events,                \* the events the turn has delivered to its consumer
    a2a_messages,          \* the messages execute has put on the A2A event queue
    status_code,           \* the HTTP status the service answered with (0: none yet)
    transfers,             \* log: the send_to_address calls made
    table,                 \* the intents table: the row of each intent id
    last_call,             \* the last database-layer call made (None before one)
    last_write,            \* the update that call issued to the table (None: no write)
    request_id,            \* LocusMCPClient.request_id
    rpc_pc,                \* where call_tool is
    rpc_log,               \* log: the JSON-RPC requests call_tool has sent
    mcp_response,          \* the HTTP reply call_tool is reading (None outside)
    service,               \* SERVICE_NAME, TRACKER_AVAILABLE and ETHERSCAN_API_KEY
    explorer_queries,      \* log: the addresses asked of the block explorer
    endpoint_status,       \* status update-transactions answered with (0: none yet)
    locus_api_key,         \* LOCUS_API_KEY in the capture service's environment
    capture_log,           \* log: the capture service's requests and their statuses
    image_file,            \* images/locus/image.png (None: no such file)
    uploads,               \* log: the objects put into the intent-images bucket
    intents_created,       \* log: the rows IntentService.create_intent posted
    payments,              \* log: the capture service's send_to_address calls
    payers,                \* buyer turns in execute_payment for one intent, by turn
    callers,               \* coroutines inside call_tool on one client, by caller
    tracker_call,          \* a get_latest_tx_to call: its inputs and what it returned
    server_port,           \* the port start_server was called with (0: not started)
    ngrok_process,         \* the global handle of the tunnel process (None: unset)
    procs,                 \* the local processes: running, bound port, signals got
    stops,                 \* how many times stop_server has returned
    initiate_pc,           \* where the POST /initiate handler is
    initiate_status,       \* the HTTP status /initiate answered with (0: none yet)
    buyer_agent_url,       \* BUYER_AGENT_URL in the seller service's environment
    seller_pitch,          \* /initiate's opening_pitch (None before it is generated)
    initiate_result        \* the body /initiate answered 200 with

orch_vars == << pc, round_num, conversation_history, result, calls, replies, request >>
turn_vars == << turn_pc, agent, turn_input, llm_stream, full_response, decision,
                transaction_amount, payment_result, events, a2a_messages, status_code >>
input_vars == << environ, intent, protocol, max_rounds >>
store_vars == << table, last_call, last_write >>
mcp_vars == << request_id, rpc_pc, rpc_log, mcp_response >>
endpoint_vars == << service, explorer_queries, endpoint_status >>
side_vars == << payers, callers, tracker_call, server_port, ngrok_process, procs, stops >>
capture_vars == << locus_api_key, capture_log, image_file, uploads, intents_created,
                   payments >>
initiate_vars == << initiate_pc, initiate_status, buyer_agent_url, seller_pitch,
                    initiate_result >>
vars == << environ, intent, protocol, max_rounds, pc, round_num, conversation_history,
           result, calls, replies, request, turn_pc, agent, turn_input, llm_stream, full_response,
           decision, transaction_amount, payment_result, events, a2a_messages, status_code,
           transfers, table, last_call, last_write, request_id, rpc_pc, rpc_log,
           mcp_response, service, explorer_queries, endpoint_status, locus_api_key,
           capture_log, image_file, uploads, intents_created, payments,
           payers, callers, tracker_call, server_port, ngrok_process, procs, stops,
           initiate_pc, initiate_status, buyer_agent_url, seller_pitch, initiate_result >>

\* ------------------------------------------------------------------ money
UnitsPerDollar == 100 * 1000
\* the literal 0.01 of agent.py (lines 261 and 306), in units
Cent == 1000

Dollars(d, cc) == d * UnitsPerDollar + cc * Cent

\* Optional[...] values: None is the empty tuple, a value v is <<v>>
None == << >>
Some(v) == << v >>

\* F(x) with x evaluated first: a recursive operator applied through Eval
\* recurses on values, not on the unevaluated expressions of its callers
Eval(F(_), x) == CHOOSE r \in { F(v) : v \in { x } } : TRUE

\* ------------------------------------------------------------------- text
LowerCase == << "a", "b", "c", "d", "e", "f", "g", "h", "i", "j", "k", "l", "m",
                "n", "o", "p", "q", "r", "s", "t", "u", "v", "w", "x", "y", "z" >>
UpperCase == << "A", "B", "C", "D", "E", "F", "G", "H", "I", "J", "K", "L", "M",
                "N", "O", "P", "Q", "R", "S", "T", "U", "V", "W", "X", "Y", "Z" >>
DigitChars == << "0", "1", "2", "3", "4", "5", "6", "7", "8", "9" >>

\* str.upper() on one character
ToUpperChar(c) ==
    IF \E i \in 1..Len(LowerCase) : LowerCase[i] = c
    THEN UpperCase[CHOOSE i \in 1..Len(LowerCase) : LowerCase[i] = c]
    ELSE c

\* str.upper()
upper(s) == [i \in 1..Len(s) |-> ToUpperChar(s[i])]

\* Python's `sub in s` on strings
Contains(sub, s) ==
    \E i \in 0..(Len(s) - Len(sub)) : SubSeq(s, i + 1, i + Len(sub)) = sub

\* "".join(parts)
RECURSIVE Join(_)
Join(parts) ==
    IF parts = << >> THEN << >> ELSE Head(parts) \o Eval(Join, Tail(parts))

DECISION_ACCEPT ==
    << "D", "E", "C", "I", "S", "I", "O", "N", ":", " ", "A", "C", "C", "E", "P", "T" >>
DECISION_REJECT ==
    << "D", "E", "C", "I", "S", "I", "O", "N", ":", " ", "R", "E", "J", "E", "C", "T" >>

\* a mutation of extract_decision: reject is looked for first
extract_decision_RejectFirst(response) ==
    Eval(LAMBDA response_upper :
             IF Contains(DECISION_REJECT, response_upper) THEN "reject"
             ELSE IF Contains(DECISION_ACCEPT, response_upper) THEN "accept"
             ELSE "continue",
         upper(response))

\* NegotiationAgent._extract_decision
extract_decision(response) ==
    Eval(LAMBDA response_upper :
             IF Contains(DECISION_ACCEPT, response_upper) THEN "accept"
             ELSE IF Contains(DECISION_REJECT, response_upper) THEN "reject"
             ELSE "continue",
         upper(response))

\* --------------------------------------------- the regular expression
IsDigit(c) == \E i \in 1..Len(DigitChars) : DigitChars[i] = c
DigitValue(c) == (CHOOSE i \in 1..Len(DigitChars) : DigitChars[i] = c) - 1
\* the character class [\d,]
IsAmountChar(c) == IsDigit(c) \/ c = ","

\* the index after the longest run of [\d,] characters that starts at i
RECURSIVE RunEnd(_, _)
RunEnd(s, i) ==
    IF i <= Len(s) /\ IsAmountChar(s[i])
    THEN Eval(LAMBDA j : RunEnd(s, j), i + 1)
    ELSE i

\* (?:\.\d{2})? matches at index j
HasFraction(s, j) ==
    /\ j + 2 <= Len(s)
    /\ s[j] = "."
    /\ IsDigit(s[j + 1])
    /\ IsDigit(s[j + 2])

\* re.findall(r'\$?\s*([\d,]+(?:\.\d{2})?)', response): the captured groups of
\* the non-overlapping matches, left to right. The optional "$" and blanks
\* before a group do not change what the group captures.
RECURSIVE FindAll(_, _)
FindAll(s, i) ==
    IF i > Len(s) THEN << >>
    ELSE IF IsAmountChar(s[i])
         THEN LET e == RunEnd(s, i)
                  f == IF HasFraction(s, e) THEN e + 3 ELSE e
              IN  Eval(LAMBDA g : << SubSeq(s, i, g - 1) >> \o FindAll(s, g), f)
         ELSE Eval(LAMBDA j : FindAll(s, j), i + 1)

findall(response) == Eval(LAMBDA s : FindAll(s, 1), response)

\* amount_str.replace(',', '')
RECURSIVE RemoveCommas(_)
RemoveCommas(s) ==
    IF s = << >> THEN << >>
    ELSE IF Head(s) = "," THEN Eval(RemoveCommas, Tail(s))
    ELSE << Head(s) >> \o Eval(RemoveCommas, Tail(s))

\* the value of a string of digits
RECURSIVE DigitsValue(_)
DigitsValue(ds) ==
    IF ds = << >> THEN 0
    ELSE Eval(DigitsValue, SubSeq(ds, 1, Len(ds) - 1)) * 10 + DigitValue(ds[Len(ds)])

\* float(amount_str.replace(',', '')) in units; None stands for ValueError
\* (the empty string, when the group held commas only)
ParseStripped(t) ==
    LET n == Len(t)
        frac == n >= 3 /\ t[n - 2] = "."
        whole == IF frac THEN SubSeq(t, 1, n - 3) ELSE t
        cents == IF frac THEN DigitsValue(SubSeq(t, n - 1, n)) ELSE 0
    IN  IF t = << >> THEN None
        ELSE Some(Dollars(DigitsValue(whole), cents))

ParseAmount(amount_str) == Eval(ParseStripped, RemoveCommas(amount_str))

\* ------------------------------------------------- NegotiationAgent
\* a mutation of NegotiationAgent: the floor is 60% of the budget
NegotiationAgent_Floor60(max_amount_usd, agent_type, buyer_api_key) ==
    [ agent_type |-> agent_type,
      max_budget |-> max_amount_usd,
      min_amount |-> (max_amount_usd \div 5) * 3,
      mcp_client |-> (agent_type = "buyer" /\ buyer_api_key # "") ]

\* NegotiationAgent.__init__: the fields the turn reads. mcp_client is TRUE
\* when a LocusMCPClient was built (buyer with BUYER_AGENT_WALLET_API_KEY).
NegotiationAgent(max_amount_usd, agent_type, buyer_api_key) ==
    [ agent_type |-> agent_type,
      max_budget |-> max_amount_usd,
      min_amount |-> (max_amount_usd \div 20) * 13,
      mcp_client |-> (agent_type = "buyer" /\ buyer_api_key # "") ]

\* a mutation of FirstInRange: the budget is not tested
RECURSIVE FirstInRange_NoBudget(_, _)
FirstInRange_NoBudget(amounts, self) ==
    IF amounts = << >> THEN None
    ELSE Eval(LAMBDA amount :
                  IF amount # None /\ Cent < amount[1]
                  THEN amount
                  ELSE Eval(LAMBDA rest : FirstInRange_NoBudget(rest, self),
                            Tail(amounts)),
              ParseAmount(Head(amounts)))

\* the loop of _extract_transaction_amount: the first parsed amount in range
RECURSIVE FirstInRange(_, _)
FirstInRange(amounts, self) ==
    IF amounts = << >> THEN None
    ELSE Eval(LAMBDA amount :
                  IF amount # None /\ Cent < amount[1] /\ amount[1] <= self.max_budget
                  THEN amount
                  ELSE Eval(LAMBDA rest : FirstInRange(rest, self), Tail(amounts)),
              ParseAmount(Head(amounts)))

\* NegotiationAgent._extract_transaction_amount
extract_transaction_amount(self, response, dec) ==
    IF dec # "accept" THEN None
    ELSE Eval(LAMBDA found :
                  IF found # None THEN found
                  ELSE IF "min_amount" \in DOMAIN self THEN Some(self.min_amount)
                  ELSE None,
              Eval(LAMBDA amounts : FirstInRange(amounts, self), findall(response)))


\* a mutation of execute_payment_entry: no test of the payment client
execute_payment_entry_NoClientCheck(self, env, dec, amount) ==
    IF env.SELLER_AGENT_WALLET_ADDRESS = "" \/ env.USER_WALLET_ADDRESS = ""
    THEN "config_error"
    ELSE IF dec = "accept" /\ amount # None /\ amount[1] # 0
         THEN "send_seller"
    ELSE IF dec = "reject" THEN "send_full_refund"
    ELSE "return_none"

\* execute_payment up to its first await: what it does next.
\* "return_none": no payment client, or nothing to pay (lines 284-285, 336);
\* "config_error": an address is missing (lines 287-291);
\* "send_seller" / "send_full_refund": the first transfer of the branch.
execute_payment_entry(self, env, dec, amount) ==
    IF ~self.mcp_client THEN "return_none"
    ELSE IF env.SELLER_AGENT_WALLET_ADDRESS = "" \/ env.USER_WALLET_ADDRESS = ""
         THEN "config_error"
    ELSE IF dec = "accept" /\ amount # None /\ amount[1] # 0
         THEN "send_seller"
    ELSE IF dec = "reject" THEN "send_full_refund"
    ELSE "return_none"

\* the condition of line 189 of negotiate: payment is executed
PaymentTriggered(self, dec) ==
    self.agent_type = "buyer" /\ dec \in {"accept", "reject"}

\* remaining = self.max_budget - transaction_amount
Remaining(self, amount) == self.max_budget - amount

\* a mutation of RefundDue: any positive remainder is refunded
RefundDue_AnyRemainder(remaining) == remaining > 0

\* `if remaining > 0.01`
RefundDue(remaining) == remaining > Cent

\* a mutation of FullRefundAmount: the seller's floor instead of the budget
FullRefundAmount_Floor(self) == self.min_amount

\* the amount of the transfer on reject (line 324)
FullRefundAmount(self) == self.max_budget

\* what send_to_address returns for a transfer the gateway accepted
Receipt(address, amount) == [address |-> address, amount |-> amount]

\* ----------------------------------------------------- formatting
RECURSIVE DigitsOf(_)
DigitsOf(n) ==
    IF n < 10 THEN << DigitChars[n + 1] >>
    ELSE Eval(DigitsOf, n \div 10) \o << DigitChars[(n % 10) + 1] >>

\* f"{x:.2f}" for x >= 0
Format2f(x) ==
    LET c == (x + Cent \div 2) \div Cent
        perDollar == UnitsPerDollar \div Cent
        frac == c % perDollar
    IN  DigitsOf(c \div perDollar) \o << "." >>
          \o << DigitChars[(frac \div 10) + 1], DigitChars[(frac % 10) + 1] >>

OfferPrefix ==
    << "I", "'", "m", " ", "o", "f", "f", "e", "r", "i", "n", "g", " ", "t", "h", "i", "s",
       " ", "i", "t", "e", "m", " ", "f", "o", "r", " ", "$" >>

\* initial_offer = float(intent['max_amount_usd']) * 1.2
InitialOffer(intnt) == (intnt.max_amount_usd \div 5) * 6

\* f"I'm offering this item for ${initial_offer:.2f}"
OpeningMessage(initial_offer) == OfferPrefix \o Format2f(initial_offer)


\* ------------------------------------------------------------ datastore
\* the one intent id the model follows
INTENT_ID == "intent-1"

\* a row of the intents table, as create_test_intent inserts it: the hash
\* columns are null until a transaction is linked
LiveRow(intent_id, max_amount) ==
    [ uuid |-> intent_id,
      max_amount_usd |-> max_amount,
      status |-> "live",
      tx_buyer_to_seller_id |-> None,
      tx_buyer_to_user_id |-> None ]

\* select("*").eq("uuid", intent_id): the rows that match
SelectByUuid(tbl, intent_id) ==
    IF tbl # None /\ tbl[1].uuid = intent_id THEN << tbl[1] >> ELSE << >>

\* get_intent: "found" with response.data[0], or IntentNotFoundError
\* a mutation of get_intent: a row is returned whether or not one matches
get_intent_AlwaysFound(tbl, intent_id) ==
    [ raised |-> "", row |-> LiveRow(intent_id, 0) ]

get_intent(tbl, intent_id) ==
    LET data == SelectByUuid(tbl, intent_id)
    IN  IF data = << >> THEN [ raised |-> "IntentNotFoundError" ]
        ELSE [ raised |-> "", row |-> data[1] ]

\* the columns holding the transaction hashes
HashFields == { "tx_buyer_to_seller_id", "tx_buyer_to_user_id" }

\* `if tx_buyer_to_seller:`: the argument is neither None nor the empty string
Truthy(tx) == tx # None /\ tx[1] # ""

\* a mutation of HashUpdates: both columns are written whatever the arguments
HashUpdates_Both(tx_buyer_to_seller, tx_buyer_to_user) ==
    [ f \in HashFields |->
        IF f = "tx_buyer_to_seller_id" THEN tx_buyer_to_seller ELSE tx_buyer_to_user ]

\* update_intent_with_transactions lines 71-75: the updates dict
HashUpdates(tx_buyer_to_seller, tx_buyer_to_user) ==
    LET arg(f) == IF f = "tx_buyer_to_seller_id" THEN tx_buyer_to_seller
                  ELSE tx_buyer_to_user
    IN  [ f \in { g \in HashFields : Truthy(arg(g)) } |-> arg(f) ]

\* a mutation of MarkUpdates: the status written is live
MarkUpdates_Live(tx_buyer_to_seller, tx_buyer_to_user) ==
    LET hashes == HashUpdates(tx_buyer_to_seller, tx_buyer_to_user)
    IN  [ f \in DOMAIN hashes \cup {"status"} |->
            IF f = "status" THEN "live" ELSE hashes[f] ]

\* mark_intent_complete lines 100-106: the updates dict
MarkUpdates(tx_buyer_to_seller, tx_buyer_to_user) ==
    LET hashes == HashUpdates(tx_buyer_to_seller, tx_buyer_to_user)
    IN  [ f \in DOMAIN hashes \cup {"status"} |->
            IF f = "status" THEN "completed" ELSE hashes[f] ]

\* a mutation of ApplyUpdate: the columns not in the updates are reset
ApplyUpdate_Reset(tbl, intent_id, updates) ==
    IF SelectByUuid(tbl, intent_id) = << >> THEN tbl
    ELSE Some([ f \in DOMAIN tbl[1] |->
                  IF f \in DOMAIN updates THEN updates[f]
                  ELSE LiveRow(intent_id, 0)[f] ])

\* `.update(updates).eq("uuid", intent_id).execute()`: the columns named in
\* updates are set on the row of that id; no row, no change
ApplyUpdate(tbl, intent_id, updates) ==
    IF SelectByUuid(tbl, intent_id) = << >> THEN tbl
    ELSE Some([ f \in DOMAIN tbl[1] |->
                  IF f \in DOMAIN updates THEN updates[f] ELSE tbl[1][f] ])

\* the datastore's insert into intents: uuid is the primary key (a payload
\* with the id of an existing row is refused, one without an id gets a fresh
\* id and becomes another row) and status defaults to live
Insert(tbl, payload) ==
    IF tbl # None THEN tbl
    ELSE Some([ f \in DOMAIN LiveRow(INTENT_ID, 0) |->
                  IF f \in DOMAIN payload THEN payload[f]
                  ELSE LiveRow(INTENT_ID, 0)[f] ])

\* ---------------------------------------------------------------- bounds
\* the largest round limit run_negotiation is started with
MaxRounds == 3

\* ---------------------------------------------------------------- inputs
SELLER_ADDRESS == "0xSELLER"
USER_ADDRESS == "0xUSER"

Environs ==
    [ BUYER_AGENT_WALLET_API_KEY : {"", "locus_key"},
      SELLER_AGENT_WALLET_ADDRESS : {"", SELLER_ADDRESS},
      USER_WALLET_ADDRESS : {"", USER_ADDRESS} ]

\* max_amount_usd of the intents negotiated: $100.00, $100.005, $100.02
Budgets == { Dollars(100, 0), Dollars(100, 0) + Cent \div 2, Dollars(100, 2) }

TextPrice == << "$", "1", "0", "0", ".", "0", "0", " " >>
TextAccept ==
    << "D", "e", "c", "i", "s", "i", "o", "n", ":", " ", "A", "c", "c", "e", "p", "t" >>
TextCounter == << "$", "9", "0", "?" >>

\* what the LLM may stream in one turn, as its sequence of text fragments
LLMReplies ==
    { << TextPrice, TextAccept >>,
      << DECISION_REJECT >>,
      << TextCounter >> }

\* ------------------------------------------------------------------ Init
TurnIdle ==
    /\ turn_pc = "idle"
    /\ agent = None
    /\ turn_input = None
    /\ llm_stream = << >>
    /\ full_response = << >>
    /\ decision = ""
    /\ transaction_amount = None
    /\ payment_result = None
    /\ events = << >>
    /\ a2a_messages = << >>
    /\ status_code = 0

\* no database-layer call has been made
StoreIdle ==
    /\ last_call = None
    /\ last_write = None

\* a LocusMCPClient as __init__ leaves it, and no call_tool under way
McpIdle ==
    /\ request_id = 0
    /\ rpc_pc = "idle"
    /\ rpc_log = << >>
    /\ mcp_response = None

\* no update-transactions request has been received; a buyer service
EndpointIdle ==
    /\ service = [ SERVICE_NAME |-> "buyer", TRACKER_AVAILABLE |-> TRUE,
                   ETHERSCAN_API_KEY |-> "etherscan_key" ]
    /\ explorer_queries = << >>
    /\ endpoint_status = 0

\* no turn is in execute_payment on its own, no coroutine in call_tool, no
\* tracker call made, and the capture service's server not started
SideIdle ==
    /\ payers = << >>
    /\ callers = << >>
    /\ tracker_call = None
    /\ server_port = 0
    /\ ngrok_process = None
    /\ procs = << >>
    /\ stops = 0

\* the capture service has handled no request
CaptureIdle ==
    /\ locus_api_key = "locus_key"
    /\ capture_log = << >>
    /\ image_file = None
    /\ uploads = << >>
    /\ intents_created = << >>
    /\ payments = << >>

\* no POST /initiate has been received
InitiateIdle ==
    /\ initiate_pc = "none"
    /\ initiate_status = 0
    /\ seller_pitch = None
    /\ initiate_result = None

\* the run has loaded the intent; the table the agent services read may have
\* lost the row since, or be another one
Init ==
    /\ environ \in Environs
    /\ intent \in [ max_amount_usd : Budgets ]
    /\ protocol \in {"http", "a2a"}
    /\ max_rounds \in 0..MaxRounds
    /\ pc = "loop"
    /\ round_num = 0
    /\ conversation_history = << >>
    /\ result = None
    /\ calls = << >>
    /\ replies = << >>
    /\ request = None
    /\ TurnIdle
    /\ transfers = << >>
    /\ table \in { None, Some(LiveRow(INTENT_ID, intent.max_amount_usd)) }
    /\ StoreIdle
    /\ McpIdle
    /\ EndpointIdle
    /\ CaptureIdle
    /\ SideIdle
    /\ InitiateIdle
    /\ buyer_agent_url = Some("buyer_url")


\* ======================================================== run_negotiation
\* a mutation of CurrentSpeaker: the parity test the wrong way round
CurrentSpeaker_Swapped(n, history) ==
    IF n = 0 THEN "seller"
    ELSE IF Len(history) % 2 = 0 THEN "buyer"
    ELSE "seller"

\* lines 216-232: who speaks in this round
CurrentSpeaker(n, history) ==
    IF n = 0 THEN "seller"
    ELSE IF Len(history) % 2 = 0 THEN "seller"
    ELSE "buyer"

\* lines 216-232: the message passed in this round
RoundMessage(n, history, intnt) ==
    IF n = 0 THEN OpeningMessage(InitialOffer(intnt))
    ELSE history[Len(history)].content

SpeakerUrl(speaker) == IF speaker = "seller" THEN "seller_url" ELSE "buyer_url"

\* the body call_agent sends: the JSON payload of _call_agent_http (lines 79-84),
\* or the message with its metadata of _call_agent_a2a (lines 132-144)
Payload(proto, speaker, message, history) ==
    IF proto = "a2a"
    THEN [ url |-> SpeakerUrl(speaker), agent_type |-> speaker, message |-> message,
           metadata |-> [ intent_id |-> INTENT_ID, agent_type |-> speaker ] ]
    ELSE [ url |-> SpeakerUrl(speaker), intent_id |-> INTENT_ID, agent_type |-> speaker,
           seller_message |-> message, conversation_history |-> history ]

\* a mutation of LoopContinues: one round too many
LoopContinues_Inclusive(n, limit) == n <= limit

\* `for round_num in range(max_rounds)`: the loop body runs once more
LoopContinues(n, limit) == n < limit

\* run_negotiation lines 209-244: the loop picks the speaker and calls the agent
RoundCall ==
    /\ pc = "loop"
    /\ LoopContinues(round_num, max_rounds)
    /\ LET current_speaker == CurrentSpeaker(round_num, conversation_history)
           message == RoundMessage(round_num, conversation_history, intent)
       IN  /\ request' = Some(Payload(protocol, current_speaker, message,
                                      conversation_history))
           /\ calls' = Append(calls, [ round_num |-> round_num,
                                       agent_type |-> current_speaker,
                                       url |-> SpeakerUrl(current_speaker),
                                       message |-> message,
                                       conversation_history |-> conversation_history ])
    /\ pc' = "call"
    /\ UNCHANGED << round_num, conversation_history, result, replies >>
    /\ UNCHANGED << turn_vars, input_vars, store_vars, mcp_vars, endpoint_vars, capture_vars,
                    side_vars, initiate_vars, transfers >>

\* ============================================================ the turn
\* POST /negotiate (main.py lines 58-101): the agent is built and its turn
\* started with the message and the history of the request
Negotiate ==
    /\ protocol = "http"
    /\ request # None
    /\ turn_pc = "idle"
    /\ \E intent_data \in { get_intent(table, request[1].intent_id) } :
          /\ intent_data.raised = ""
          /\ agent' = NegotiationAgent(intent_data.row.max_amount_usd,
                                       request[1].agent_type,
                                       environ.BUYER_AGENT_WALLET_API_KEY)
    /\ turn_input' = [ seller_message |-> request[1].seller_message,
                       conversation_history |-> request[1].conversation_history ]
    /\ llm_stream' \in LLMReplies
    /\ turn_pc' = "streaming"
    /\ status_code' = 200
    /\ UNCHANGED << full_response, decision, transaction_amount, payment_result,
                    events, a2a_messages >>
    /\ UNCHANGED << orch_vars, input_vars, store_vars, mcp_vars, endpoint_vars, capture_vars,
                    side_vars, initiate_vars, transfers >>

\* execute line 36: `metadata.get("intent_id") if metadata else None`; "" stands
\* for None, which `if not intent_id` treats alike
IntentIdOf(metadata) ==
    IF "intent_id" \in DOMAIN metadata THEN metadata.intent_id ELSE ""

\* a mutation of AgentTypeOf: the default is the seller
AgentTypeOf_Seller(metadata) ==
    IF "agent_type" \in DOMAIN metadata THEN metadata.agent_type ELSE "seller"

\* execute line 37: `metadata.get("agent_type", "buyer") if metadata else "buyer"`
AgentTypeOf(metadata) ==
    IF "agent_type" \in DOMAIN metadata THEN metadata.agent_type ELSE "buyer"

\* NegotiationAgentExecutor.execute (a2a_server.py lines 24-51): intent_id and
\* agent_type from the metadata, and negotiate(message, [])
Execute ==
    /\ protocol = "a2a"
    /\ request # None
    /\ turn_pc = "idle"
    /\ IntentIdOf(request[1].metadata) # ""
    /\ \E intent_data \in { get_intent(table, IntentIdOf(request[1].metadata)) } :
          /\ intent_data.raised = ""
          /\ agent' = NegotiationAgent(intent_data.row.max_amount_usd,
                                       AgentTypeOf(request[1].metadata),
                                       environ.BUYER_AGENT_WALLET_API_KEY)
    /\ turn_input' = [ seller_message |-> request[1].message,
                       conversation_history |-> << >> ]
    /\ llm_stream' \in LLMReplies
    /\ turn_pc' = "streaming"
    /\ UNCHANGED << full_response, decision, transaction_amount, payment_result,
                    events, a2a_messages >>
    /\ UNCHANGED status_code
    /\ UNCHANGED << orch_vars, input_vars, store_vars, mcp_vars, endpoint_vars, capture_vars,
                    side_vars, initiate_vars, transfers >>

\* execute lines 39-43: the text of the message enqueued, abbreviated
IntentIdRequired ==
    << "E", "r", "r", "o", "r", ":", " ", "i", "n", "t", "e", "n", "t", "_", "i", "d" >>

\* execute lines 39-43: the metadata carries no intent_id; the error text is
\* enqueued and execute returns
ExecuteNoIntentId ==
    /\ protocol = "a2a"
    /\ request # None
    /\ turn_pc = "idle"
    /\ IntentIdOf(request[1].metadata) = ""
    /\ a2a_messages' = Append(a2a_messages, IntentIdRequired)
    /\ turn_pc' = "closed"
    /\ UNCHANGED << agent, turn_input, llm_stream, full_response, decision,
                    transaction_amount, payment_result, events, status_code >>
    /\ UNCHANGED << orch_vars, input_vars, store_vars, mcp_vars, endpoint_vars, capture_vars,
                    side_vars, initiate_vars, transfers >>

\* the turn answers without an agent: nothing of negotiate has run
TurnRefused ==
    /\ turn_pc' = "closed"
    /\ UNCHANGED << agent, turn_input, llm_stream, full_response, decision,
                    transaction_amount, payment_result, events, a2a_messages >>

\* POST /negotiate (main.py lines 76-83): get_intent finds no row; 404
NegotiateNotFound ==
    /\ protocol = "http"
    /\ request # None
    /\ turn_pc = "idle"
    /\ get_intent(table, request[1].intent_id).raised = "IntentNotFoundError"
    /\ status_code' = 404
    /\ TurnRefused
    /\ UNCHANGED << orch_vars, input_vars, store_vars, mcp_vars, endpoint_vars, capture_vars,
                    side_vars, initiate_vars, transfers >>

\* POST /negotiate (main.py lines 76-86): the datastore call raises; 500
NegotiateDatabaseError ==
    /\ protocol = "http"
    /\ request # None
    /\ turn_pc = "idle"
    /\ status_code' = 500
    /\ TurnRefused
    /\ UNCHANGED << orch_vars, input_vars, store_vars, mcp_vars, endpoint_vars, capture_vars,
                    side_vars, initiate_vars, transfers >>

\* execute (a2a_server.py line 46): get_intent raises, for a missing row or a
\* datastore failure; execute has no handler, so nothing is enqueued
ExecuteLookupRaises ==
    /\ protocol = "a2a"
    /\ request # None
    /\ turn_pc = "idle"
    /\ IntentIdOf(request[1].metadata) # ""
    /\ TurnRefused
    /\ UNCHANGED status_code
    /\ UNCHANGED << orch_vars, input_vars, store_vars, mcp_vars, endpoint_vars, capture_vars,
                    side_vars, initiate_vars, transfers >>

\* a mutation of TextEvent: the fragment is marked final
TextEvent_Final(text) == [ type |-> "text", content |-> text, is_final |-> TRUE ]

TextEvent(text) == [ type |-> "text", content |-> text, is_final |-> FALSE ]

\* negotiate lines 170-179: one fragment arrives and is yielded as a text event
StreamText ==
    /\ turn_pc = "streaming"
    /\ llm_stream # << >>
    /\ LET text == Head(llm_stream)
       IN  /\ full_response' = full_response \o text
           /\ events' = Append(events, TextEvent(text))
    /\ llm_stream' = Tail(llm_stream)
    /\ UNCHANGED << turn_pc, agent, turn_input, decision, transaction_amount,
                    payment_result, a2a_messages >>
    /\ UNCHANGED status_code
    /\ UNCHANGED << orch_vars, input_vars, store_vars, mcp_vars, endpoint_vars, capture_vars,
                    side_vars, initiate_vars, transfers >>

\* str(e) of the exception
ErrorText == << "e", "r", "r", "o", "r" >>
\* a mutation of ErrorEvent: the error is not marked final
ErrorEvent_NotFinal == [ type |-> "error", content |-> ErrorText, is_final |-> FALSE ]

ErrorEvent == [ type |-> "error", content |-> ErrorText, is_final |-> TRUE ]

\* the LLM stream raises part-way. Over HTTP event_generator catches it and
\* writes an error event (main.py lines 114-121); execute has no handler, so
\* over A2A the exception leaves it and nothing is enqueued.
StreamError ==
    /\ turn_pc = "streaming"
    /\ initiate_pc # "pitch"
    /\ llm_stream # << >>
    /\ events' = IF protocol = "http" THEN Append(events, ErrorEvent) ELSE events
    /\ turn_pc' = "closed"
    /\ UNCHANGED << agent, turn_input, llm_stream, full_response, decision,
                    transaction_amount, payment_result, a2a_messages >>
    /\ UNCHANGED status_code
    /\ UNCHANGED << orch_vars, input_vars, store_vars, mcp_vars, endpoint_vars, capture_vars,
                    side_vars, initiate_vars, transfers >>

\* a mutation of StreamEnded: negotiate goes on before the stream has ended
StreamEnded_Always(stream) == TRUE

\* negotiate lines 169-179: `async for event in stream` has no more events
StreamEnded(stream) == stream = << >>

\* negotiate lines 181-190 and execute_payment lines 284-294: the stream has
\* ended; the decision and the amount are extracted, and payment is executed,
\* up to its first transfer
StreamEnd ==
    /\ turn_pc = "streaming"
    /\ StreamEnded(llm_stream)
    /\ \E d \in { extract_decision(full_response) } :
       \E a \in { extract_transaction_amount(agent, full_response, d) } :
       \E next \in { IF PaymentTriggered(agent, d)
                      THEN execute_payment_entry(agent, environ, d, a)
                      ELSE "return_none" } :
           /\ decision' = d
           /\ transaction_amount' = a
           /\ payment_result' =
                 IF next = "config_error"
                 THEN Some([ error |-> "Wallet addresses not configured" ])
                 ELSE None
           /\ turn_pc' = IF next \in {"send_seller", "send_full_refund"} THEN next
                         ELSE "final"
    /\ UNCHANGED << agent, turn_input, llm_stream, full_response, events, a2a_messages >>
    /\ UNCHANGED status_code
    /\ UNCHANGED << orch_vars, input_vars, store_vars, mcp_vars, endpoint_vars, capture_vars,
                    side_vars, initiate_vars, transfers >>

Transfer(address, amount, ok) ==
    [ round_num |-> round_num, address |-> address, amount |-> amount, ok |-> ok ]

\* a mutation of PaymentError: the failure leaves no result
PaymentError_NoResult == None

\* `except Exception as e: return {"error": str(e)}`
PaymentError == Some([ error |-> "MCP error" ])

\* a mutation of AfterSellerTransfer: the refund is sent whether or not the
\* transfer to the seller returned
AfterSellerTransfer_RefundAnyway(ok, remaining) ==
    IF RefundDue(remaining) THEN "send_refund" ELSE "final"

\* execute_payment lines 296-318: where it goes on after the transfer to the
\* seller: to the except clause when it raised, else to the refund when one is
\* due, else to the return
AfterSellerTransfer(ok, remaining) ==
    IF ~ok THEN "final"
    ELSE IF RefundDue(remaining) THEN "send_refund"
    ELSE "final"

\* execute_payment lines 296-318: the transfer to the seller returns or raises;
\* without a refund due the accept result is returned
SendToSeller ==
    /\ turn_pc = "send_seller"
    /\ \E ok \in BOOLEAN :
         LET amount == transaction_amount[1]
             remaining == Remaining(agent, amount)
             next == AfterSellerTransfer(ok, remaining)
         IN  /\ transfers' = Append(transfers,
                                    Transfer(environ.SELLER_AGENT_WALLET_ADDRESS, amount, ok))
             /\ turn_pc' = next
             /\ payment_result' =
                   IF ~ok THEN PaymentError
                   ELSE IF next = "send_refund" THEN payment_result
                   ELSE Some([ seller_payment |->
                                   Receipt(environ.SELLER_AGENT_WALLET_ADDRESS, amount),
                               user_refund |-> None,
                               amount_paid |-> amount,
                               amount_refunded |-> remaining ])
    /\ UNCHANGED << agent, turn_input, llm_stream, full_response, decision,
                    transaction_amount, events, a2a_messages >>
    /\ UNCHANGED status_code
    /\ UNCHANGED << orch_vars, input_vars, store_vars, mcp_vars, endpoint_vars, capture_vars,
                    side_vars, initiate_vars >>

\* execute_payment lines 306-318: the refund of the remaining budget
SendRefund ==
    /\ turn_pc = "send_refund"
    /\ \E ok \in BOOLEAN :
         LET amount == transaction_amount[1]
             remaining == Remaining(agent, amount)
         IN  /\ transfers' = Append(transfers,
                                    Transfer(environ.USER_WALLET_ADDRESS, remaining, ok))
             /\ payment_result' =
                   IF ~ok THEN PaymentError
                   ELSE Some([ seller_payment |->
                                   Receipt(environ.SELLER_AGENT_WALLET_ADDRESS, amount),
                               user_refund |->
                                   Some(Receipt(environ.USER_WALLET_ADDRESS, remaining)),
                               amount_paid |-> amount,
                               amount_refunded |-> remaining ])
    /\ turn_pc' = "final"
    /\ UNCHANGED << agent, turn_input, llm_stream, full_response, decision,
                    transaction_amount, events, a2a_messages >>
    /\ UNCHANGED status_code
    /\ UNCHANGED << orch_vars, input_vars, store_vars, mcp_vars, endpoint_vars, capture_vars,
                    side_vars, initiate_vars >>

\* execute_payment lines 320-331: on reject the whole budget goes back
SendFullRefund ==
    /\ turn_pc = "send_full_refund"
    /\ \E ok \in BOOLEAN :
         /\ transfers' = Append(transfers,
                                Transfer(environ.USER_WALLET_ADDRESS,
                                         FullRefundAmount(agent), ok))
         /\ payment_result' =
               IF ~ok THEN PaymentError
               ELSE Some([ user_refund |->
                               Some(Receipt(environ.USER_WALLET_ADDRESS,
                                            FullRefundAmount(agent))),
                           amount_refunded |-> agent.max_budget ])
    /\ turn_pc' = "final"
    /\ UNCHANGED << agent, turn_input, llm_stream, full_response, decision,
                    transaction_amount, events, a2a_messages >>
    /\ UNCHANGED status_code
    /\ UNCHANGED << orch_vars, input_vars, store_vars, mcp_vars, endpoint_vars, capture_vars,
                    side_vars, initiate_vars >>

FinalEvent ==
    [ type |-> "final", content |-> full_response, decision |-> decision,
      transaction_amount |-> transaction_amount, payment_result |-> payment_result,
      is_final |-> TRUE ]

\* negotiate lines 192-200: the final event. Over HTTP it is written to the
\* stream (main.py lines 98-105); over A2A execute enqueues its content as the
\* one response message (a2a_server.py lines 51-57).
YieldFinal ==
    /\ turn_pc = "final"
    /\ events' = Append(events, FinalEvent)
    /\ a2a_messages' = IF protocol = "a2a" THEN Append(a2a_messages, full_response)
                       ELSE a2a_messages
    /\ turn_pc' = "closed"
    /\ UNCHANGED << agent, turn_input, llm_stream, full_response, decision,
                    transaction_amount, payment_result >>
    /\ UNCHANGED status_code
    /\ UNCHANGED << orch_vars, input_vars, store_vars, mcp_vars, endpoint_vars, capture_vars,
                    side_vars, initiate_vars, transfers >>


\* ================================================== call_agent returns
\* _call_agent_http lines 87-102: the text events concatenated, the decision
\* and the payment result of the final event ("continue" and None without one)
RECURSIVE HttpFold(_, _)
HttpFold(evs, acc) ==
    IF evs = << >> THEN acc
    ELSE LET data == Head(evs)
             nxt == IF data.type = "text"
                    THEN [ acc EXCEPT !.full_response = @ \o data.content ]
                    ELSE IF data.type = "final"
                    THEN [ acc EXCEPT !.decision = data.decision,
                                      !.payment_result = data.payment_result ]
                    ELSE acc
         IN  Eval(LAMBDA rest : Eval(LAMBDA a : HttpFold(rest, a), nxt), Tail(evs))

\* the contents of the text events of a stream
TextContents0(evs) ==
    LET texts == SelectSeq(evs, LAMBDA e : e.type = "text")
    IN  [ k \in 1..Len(texts) |-> texts[k].content ]

\* a mutation of call_agent_http: the decision of the final event is not read
call_agent_http_KeepsContinue(evs) ==
    [ HttpFold(evs, [ full_response |-> << >>, decision |-> "continue",
                      payment_result |-> None ]) EXCEPT !.decision = "continue" ]

\* a mutation of call_agent_http: the final event is not read
call_agent_http_NoFinal(evs) ==
    [ full_response |-> Join(TextContents0(evs)), decision |-> "continue",
      payment_result |-> None ]

call_agent_http(evs) ==
    HttpFold(evs, [ full_response |-> << >>, decision |-> "continue",
                    payment_result |-> None ])

\* a mutation of call_agent_a2a: the markers are looked for in the text as it is
call_agent_a2a_CaseSensitive(messages) ==
    Eval(LAMBDA text :
             [ full_response |-> text,
               decision |->
                   IF Contains(DECISION_ACCEPT, text) THEN "accept"
                   ELSE IF Contains(DECISION_REJECT, text) THEN "reject"
                   ELSE "continue" ],
         Join(messages))

\* _call_agent_a2a lines 154-170: the text parts of the reply (none when the
\* reply carries no result), and the decision read from the text
call_agent_a2a(messages) ==
    Eval(LAMBDA text :
             Eval(LAMBDA text_upper :
                      [ full_response |-> text,
                        decision |->
                            IF Contains(DECISION_ACCEPT, text_upper) THEN "accept"
                            ELSE IF Contains(DECISION_REJECT, text_upper) THEN "reject"
                            ELSE "continue" ],
                  upper(text)),
         Join(messages))

\* call_agent lines 64-68
call_agent(proto, evs, messages) ==
    IF proto = "a2a"
    THEN Eval(LAMBDA r : [ full_response |-> r.full_response, decision |-> r.decision,
                           payment_result |-> None ],
              call_agent_a2a(messages))
    ELSE call_agent_http(evs)

\* lines 253-258: the entry appended to the history
ConversationEntry(speaker, response, pay) ==
    IF pay # None
    THEN [ role |-> speaker, content |-> response, payment_result |-> pay[1] ]
    ELSE [ role |-> speaker, content |-> response ]

\* a mutation of FinalResult: the 0-based loop variable reported as rounds
FinalResult_ZeroBased(status, outcome, n, history, speaker) ==
    [ status |-> status, outcome |-> outcome, rounds |-> n,
      conversation |-> history, final_decision_by |-> speaker ]

\* lines 269-275 and 283-289
FinalResult(status, outcome, n, history, speaker) ==
    [ status |-> status, outcome |-> outcome, rounds |-> n + 1,
      conversation |-> history, final_decision_by |-> speaker ]

\* the call has failed: the service answered with a status other than 200, or
\* its stream carries an error event
CallFailed(proto, status, evs) ==
    /\ proto = "http"
    /\ \/ status # 200
       \/ \E k \in 1..Len(evs) : evs[k].type = "error"

\* the entry of the replies log: what call_agent returned, and whether the call
\* had failed
ReplyLog(r, failed) ==
    [ full_response |-> r.full_response, decision |-> r.decision,
      payment_result |-> r.payment_result, failed |-> failed ]

\* the request is over: the service keeps nothing of the turn
TurnReset ==
    /\ turn_pc' = "idle"
    /\ agent' = None
    /\ turn_input' = None
    /\ llm_stream' = << >>
    /\ full_response' = << >>
    /\ decision' = ""
    /\ transaction_amount' = None
    /\ payment_result' = None
    /\ events' = << >>
    /\ a2a_messages' = << >>
    /\ status_code' = 0

\* run_negotiation lines 238-289: the call returns; the reply is recorded and
\* the decision ends the run or starts the next round
RoundReturn ==
    /\ pc = "call"
    /\ turn_pc = "closed"
    /\ \E r \in { call_agent(protocol, events, a2a_messages) } :
       LET current_speaker == request[1].agent_type
           history == Append(conversation_history,
                             ConversationEntry(current_speaker, r.full_response,
                                               r.payment_result))
       IN  /\ conversation_history' = history
           /\ replies' = Append(replies,
                                 ReplyLog(r, CallFailed(protocol, status_code, events)))
           /\ IF r.decision = "accept"
              THEN /\ result' = Some(FinalResult("success", "accepted", round_num,
                                                 history, current_speaker))
                   /\ pc' = "done"
                   /\ round_num' = round_num
              ELSE IF r.decision = "reject"
              THEN /\ result' = Some(FinalResult("failed", "rejected", round_num,
                                                 history, current_speaker))
                   /\ pc' = "done"
                   /\ round_num' = round_num
              ELSE /\ result' = result
                   /\ pc' = "loop"
                   /\ round_num' = round_num + 1
    /\ request' = None
    /\ TurnReset
    /\ UNCHANGED << calls, input_vars, store_vars, mcp_vars, endpoint_vars, capture_vars,
                    side_vars, initiate_vars, transfers >>

\* a mutation of TimeoutResult: the rounds of the accept path's formula
TimeoutResult_PlusOne(limit, history) ==
    [ status |-> "timeout", outcome |-> "max_rounds_reached",
      rounds |-> limit + 1, conversation |-> history ]

\* lines 297-302
TimeoutResult(limit, history) ==
    [ status |-> "timeout", outcome |-> "max_rounds_reached",
      rounds |-> limit, conversation |-> history ]

\* run_negotiation lines 291-302: the loop is exhausted
MaxRoundsReached ==
    /\ pc = "loop"
    /\ ~LoopContinues(round_num, max_rounds)
    /\ result' = Some(TimeoutResult(max_rounds, conversation_history))
    /\ pc' = "done"
    /\ UNCHANGED << round_num, conversation_history, calls, replies, request >>
    /\ UNCHANGED << turn_vars, input_vars, store_vars, mcp_vars, endpoint_vars, capture_vars,
                    side_vars, initiate_vars, transfers >>

Next ==
    \/ RoundCall
    \/ Negotiate
    \/ NegotiateNotFound
    \/ NegotiateDatabaseError
    \/ Execute
    \/ ExecuteLookupRaises
    \/ StreamText
    \/ StreamError
    \/ StreamEnd
    \/ SendToSeller
    \/ SendRefund
    \/ SendFullRefund
    \/ YieldFinal
    \/ RoundReturn
    \/ MaxRoundsReached

Spec == Init /\ [][Next]_vars


\* run_negotiation, given that every call returns: each enabled step is taken
FairSpec == Spec /\ WF_vars(Next)


\* ======================================================= POST /initiate
\* generate_opening_pitch (main.py lines 142-146): the prompt, abbreviated
PitchPrompt == << "p", "i", "t", "c", "h" >>

\* a POST /negotiate a client sends to a service directly
DirectRequests ==
    { [ url |-> SpeakerUrl(agent_type), intent_id |-> INTENT_ID,
        agent_type |-> agent_type, seller_message |-> TextCounter,
        conversation_history |-> None ] : agent_type \in {"buyer", "seller"} }

\* the metadata of an A2A message a client sends: with or without intent_id
\* (or an empty one) and agent_type
Metadatas ==
    { [ k \in keys |-> IF k = "intent_id" THEN intent_id ELSE agent_type ] :
        keys \in SUBSET {"intent_id", "agent_type"},
        intent_id \in {"", INTENT_ID},
        agent_type \in {"buyer", "seller"} }

\* an A2A message a client sends to a service directly
DirectA2ARequests ==
    { [ url |-> "buyer_url", message |-> TextCounter, metadata |-> metadata ] :
        metadata \in Metadatas }

\* the consumer of a /negotiate stream stops reading before the stream has
\* ended: the generator is closed where it is suspended, and nothing more of
\* negotiate runs
ConsumerStops ==
    /\ pc = "initiate"
    /\ initiate_pc = "none"
    /\ protocol = "http"
    /\ turn_pc = "streaming"
    /\ turn_pc' = "closed"
    /\ UNCHANGED << agent, turn_input, llm_stream, full_response, decision,
                    transaction_amount, payment_result, events, a2a_messages,
                    status_code >>
    /\ UNCHANGED << orch_vars, input_vars, store_vars, mcp_vars, endpoint_vars, capture_vars,
                    side_vars, initiate_vars, transfers >>

\* one request has been received: a POST /initiate by the seller service (the
\* buyer service it calls reads the same table), a POST /negotiate, or an A2A
\* message
InitInitiate ==
    /\ environ \in Environs
    /\ intent \in [ max_amount_usd : Budgets ]
    /\ max_rounds = 0
    /\ pc = "initiate"
    /\ round_num = 0
    /\ conversation_history = << >>
    /\ result = None
    /\ calls = << >>
    /\ replies = << >>
    /\ TurnIdle
    /\ transfers = << >>
    /\ table \in { None, Some(LiveRow(INTENT_ID, intent.max_amount_usd)) }
    /\ StoreIdle
    /\ McpIdle
    /\ EndpointIdle
    /\ CaptureIdle
    /\ SideIdle
    /\ initiate_status = 0
    /\ seller_pitch = None
    /\ initiate_result = None
    /\ \/ /\ initiate_pc = "received"
          /\ protocol = "http"
          /\ request = None
          /\ buyer_agent_url \in { None, Some("buyer_url") }
       \/ /\ initiate_pc = "none"
          /\ protocol = "http"
          /\ request \in { Some(r) : r \in DirectRequests }
          /\ buyer_agent_url = Some("buyer_url")
       \/ /\ initiate_pc = "none"
          /\ protocol = "a2a"
          /\ request \in { Some(r) : r \in DirectA2ARequests }
          /\ buyer_agent_url = Some("buyer_url")

\* /initiate raises HTTPException(status): nothing else of the handler's state
\* changes
InitiateRaises(status) ==
    /\ initiate_status' = status
    /\ initiate_pc' = "done"
    /\ UNCHANGED << buyer_agent_url, seller_pitch, initiate_result >>

\* main.py lines 176-188: the intent is found, the seller agent is built and
\* generate_opening_pitch starts its turn with the prompt and []
Initiate ==
    /\ initiate_pc = "received"
    /\ \E intent_data \in { get_intent(table, INTENT_ID) } :
          /\ intent_data.raised = ""
          /\ agent' = NegotiationAgent(intent_data.row.max_amount_usd, "seller",
                                       environ.BUYER_AGENT_WALLET_API_KEY)
    /\ turn_input' = [ seller_message |-> PitchPrompt, conversation_history |-> << >> ]
    /\ llm_stream' \in LLMReplies
    /\ turn_pc' = "streaming"
    /\ initiate_pc' = "pitch"
    /\ UNCHANGED << full_response, decision, transaction_amount, payment_result,
                    events, a2a_messages, status_code >>
    /\ UNCHANGED << initiate_status, buyer_agent_url, seller_pitch, initiate_result >>
    /\ UNCHANGED << orch_vars, input_vars, store_vars, mcp_vars, endpoint_vars, capture_vars,
                    side_vars, transfers >>

\* main.py lines 177-180: get_intent finds no row; 404
InitiateNotFound ==
    /\ initiate_pc = "received"
    /\ get_intent(table, INTENT_ID).raised = "IntentNotFoundError"
    /\ InitiateRaises(404)
    /\ UNCHANGED << orch_vars, turn_vars, input_vars, store_vars, mcp_vars, endpoint_vars,
                    capture_vars,
                    side_vars, transfers >>

\* main.py lines 181-182: the datastore call raises; 500
InitiateDatabaseError ==
    /\ initiate_pc = "received"
    /\ InitiateRaises(500)
    /\ UNCHANGED << orch_vars, turn_vars, input_vars, store_vars, mcp_vars, endpoint_vars,
                    capture_vars,
                    side_vars, transfers >>

\* the LLM stream of the pitch raises: nothing in generate_opening_pitch or the
\* handler catches it, so the request is answered 500
PitchError ==
    /\ initiate_pc = "pitch"
    /\ turn_pc = "streaming"
    /\ llm_stream # << >>
    /\ InitiateRaises(500)
    /\ turn_pc' = "closed"
    /\ UNCHANGED << agent, turn_input, llm_stream, full_response, decision,
                    transaction_amount, payment_result, events, a2a_messages,
                    status_code >>
    /\ UNCHANGED << orch_vars, input_vars, store_vars, mcp_vars, endpoint_vars, capture_vars,
                    side_vars, transfers >>

\* generate_opening_pitch lines 149-154: the content of the final chunk
OpeningPitch(evs) ==
    LET finals == SelectSeq(evs, LAMBDA e : e.type = "final")
    IN  IF finals = << >> THEN << >> ELSE finals[1].content

\* main.py lines 190-196: the pitch is made but BUYER_AGENT_URL is not set; 500
InitiateNoBuyerUrl ==
    /\ initiate_pc = "pitch"
    /\ turn_pc = "closed"
    /\ buyer_agent_url = None
    /\ seller_pitch' = Some(OpeningPitch(events))
    /\ initiate_status' = 500
    /\ initiate_pc' = "done"
    /\ TurnReset
    /\ UNCHANGED << buyer_agent_url, initiate_result >>
    /\ UNCHANGED << orch_vars, input_vars, store_vars, mcp_vars, endpoint_vars, capture_vars,
                    side_vars, transfers >>

\* main.py lines 199-212: the pitch is posted to the buyer's /negotiate
InitiatePost ==
    /\ initiate_pc = "pitch"
    /\ turn_pc = "closed"
    /\ buyer_agent_url # None
    /\ \E opening_pitch \in { OpeningPitch(events) } :
          /\ seller_pitch' = Some(opening_pitch)
          /\ request' = Some([ url |-> buyer_agent_url[1], intent_id |-> INTENT_ID,
                               agent_type |-> "buyer", seller_message |-> opening_pitch,
                               conversation_history |-> None ])
    /\ initiate_pc' = "post"
    /\ TurnReset
    /\ UNCHANGED << initiate_status, buyer_agent_url, initiate_result >>
    /\ UNCHANGED << pc, round_num, conversation_history, result, calls, replies >>
    /\ UNCHANGED << input_vars, store_vars, mcp_vars, endpoint_vars, capture_vars, side_vars,
                    transfers >>

\* main.py lines 227-231: the buyer service cannot be reached; 500
InitiateConnectError ==
    /\ initiate_pc = "post"
    /\ turn_pc = "idle"
    /\ request # None
    /\ request' = None
    /\ InitiateRaises(500)
    /\ UNCHANGED << pc, round_num, conversation_history, result, calls, replies >>
    /\ UNCHANGED << turn_vars, input_vars, store_vars, mcp_vars, endpoint_vars, capture_vars,
                    side_vars, transfers >>

\* main.py lines 200-226: what the handler reads off the buyer's stream: the
\* content and decision of the last final event ("" and "continue" without one)
RECURSIVE BuyerFold(_, _)
BuyerFold(evs, acc) ==
    IF evs = << >> THEN acc
    ELSE LET data == Head(evs)
             nxt == IF data.type = "final"
                    THEN [ buyer_response |-> data.content,
                           buyer_decision |-> data.decision ]
                    ELSE acc
         IN  Eval(LAMBDA rest : Eval(LAMBDA a : BuyerFold(rest, a), nxt), Tail(evs))

\* main.py lines 213-235: the buyer's response has ended; a status other than
\* 200 is answered 500, else the body is built from what was read
InitiateReturn ==
    /\ initiate_pc = "post"
    /\ turn_pc = "closed"
    /\ IF status_code # 200
       THEN /\ initiate_status' = 500
            /\ initiate_result' = initiate_result
       ELSE \E read \in { BuyerFold(events, [ buyer_response |-> << >>,
                                             buyer_decision |-> "continue" ]) } :
              /\ initiate_status' = 200
              /\ initiate_result' = Some([ seller_pitch |-> seller_pitch[1],
                                           buyer_response |-> read.buyer_response,
                                           buyer_decision |-> read.buyer_decision ])
    /\ initiate_pc' = "done"
    /\ request' = None
    /\ TurnReset
    /\ UNCHANGED << buyer_agent_url, seller_pitch >>
    /\ UNCHANGED << pc, round_num, conversation_history, result, calls, replies >>
    /\ UNCHANGED << input_vars, store_vars, mcp_vars, endpoint_vars, capture_vars, side_vars,
                    transfers >>

NextInitiate ==
    \/ Initiate
    \/ InitiateNotFound
    \/ InitiateDatabaseError
    \/ PitchError
    \/ InitiateNoBuyerUrl
    \/ InitiatePost
    \/ InitiateConnectError
    \/ InitiateReturn
    \/ Negotiate
    \/ NegotiateNotFound
    \/ NegotiateDatabaseError
    \/ Execute
    \/ ExecuteNoIntentId
    \/ ExecuteLookupRaises
    \/ ConsumerStops
    \/ StreamText
    \/ StreamError
    \/ StreamEnd
    \/ SendToSeller
    \/ SendRefund
    \/ SendFullRefund
    \/ YieldFinal

SpecInitiate == InitInitiate /\ [][NextInitiate]_vars


\* ===================================================== the intents table
\* the hashes the database layer is called with: absent, empty, or a hash
SellerHashArgs == { None, Some(""), Some("0xaa"), Some("0xbb") }
UserHashArgs == { None, Some("0xcc") }

\* the status create_intent is called with
StatusArgs == { None, Some("live"), Some("completed") }

\* rounds of the runs that go on while the table is written
StoreRounds == 2

\* a run of the orchestrator on an intent it has loaded, or one request to a
\* service, with the wallet configured and a budget of $100.02
InitStore ==
    /\ environ = [ BUYER_AGENT_WALLET_API_KEY |-> "locus_key",
                   SELLER_AGENT_WALLET_ADDRESS |-> SELLER_ADDRESS,
                   USER_WALLET_ADDRESS |-> USER_ADDRESS ]
    /\ intent = [ max_amount_usd |-> Dollars(100, 2) ]
    /\ max_rounds = StoreRounds
    /\ round_num = 0
    /\ conversation_history = << >>
    /\ result = None
    /\ calls = << >>
    /\ replies = << >>
    /\ TurnIdle
    /\ transfers = << >>
    /\ StoreIdle
    /\ McpIdle
    /\ EndpointIdle
    /\ CaptureIdle
    /\ SideIdle
    /\ initiate_status = 0
    /\ seller_pitch = None
    /\ initiate_result = None
    /\ \/ /\ pc = "loop"
          /\ protocol \in {"http", "a2a"}
          /\ request = None
          /\ initiate_pc = "none"
          /\ buyer_agent_url = Some("buyer_url")
          /\ table = Some(LiveRow(INTENT_ID, intent.max_amount_usd))
       \/ /\ pc = "initiate"
          /\ \/ /\ initiate_pc = "received"
                /\ protocol = "http"
                /\ request = None
                /\ buyer_agent_url \in { None, Some("buyer_url") }
             \/ /\ initiate_pc = "none"
                /\ protocol = "http"
                /\ request \in { Some(r) : r \in DirectRequests }
                /\ buyer_agent_url = Some("buyer_url")
             \/ /\ initiate_pc = "none"
                /\ protocol = "a2a"
                /\ request \in { Some(r) : r \in DirectA2ARequests }
                /\ Cardinality(DOMAIN request[1].metadata) # 1
                /\ buyer_agent_url = Some("buyer_url")
          /\ table \in { None, Some(LiveRow(INTENT_ID, intent.max_amount_usd)) }

\* update_intent_with_transactions (database.py lines 53-79)
UpdateIntentWithTransactions ==
    /\ \E tx_buyer_to_seller \in SellerHashArgs, tx_buyer_to_user \in UserHashArgs :
       \E updates \in { HashUpdates(tx_buyer_to_seller, tx_buyer_to_user) } :
          /\ last_call' = Some([ op |-> "update_intent_with_transactions",
                                 tx_buyer_to_seller |-> tx_buyer_to_seller,
                                 tx_buyer_to_user |-> tx_buyer_to_user ])
          /\ IF DOMAIN updates # {}
             THEN /\ table' = ApplyUpdate(table, INTENT_ID, updates)
                  /\ last_write' = Some(updates)
             ELSE /\ table' = table
                  /\ last_write' = None
    /\ UNCHANGED << orch_vars, turn_vars, input_vars, mcp_vars, endpoint_vars, capture_vars,
                    side_vars, initiate_vars, transfers >>

\* mark_intent_complete (database.py lines 82-108)
MarkIntentComplete ==
    /\ \E tx_buyer_to_seller \in SellerHashArgs, tx_buyer_to_user \in UserHashArgs :
       \E updates \in { MarkUpdates(tx_buyer_to_seller, tx_buyer_to_user) } :
          /\ last_call' = Some([ op |-> "mark_intent_complete",
                                 tx_buyer_to_seller |-> tx_buyer_to_seller,
                                 tx_buyer_to_user |-> tx_buyer_to_user ])
          /\ table' = ApplyUpdate(table, INTENT_ID, updates)
          /\ last_write' = Some(updates)
    /\ UNCHANGED << orch_vars, turn_vars, input_vars, mcp_vars, endpoint_vars, capture_vars,
                    side_vars, initiate_vars, transfers >>

\* create_test_intent (database.py lines 111-141): a row with a fresh id
CreateTestIntent ==
    /\ \E payload \in { [ uuid |-> INTENT_ID, max_amount_usd |-> intent.max_amount_usd,
                          status |-> "live" ] } :
          /\ last_call' = Some([ op |-> "create_test_intent" ])
          /\ table' = Insert(table, payload)
          /\ last_write' = Some(payload)
    /\ UNCHANGED << orch_vars, turn_vars, input_vars, mcp_vars, endpoint_vars, capture_vars,
                    side_vars, initiate_vars, transfers >>

\* IntentService.create_intent (intent_service.py lines 12-70): the payload has
\* only the fields provided
CreateIntentPayload(max_amount_usd, status, uuid) ==
    LET provided == { "max_amount_usd" }
                      \cup (IF status # None /\ status[1] # "" THEN { "status" } ELSE {})
                      \cup (IF uuid # None /\ uuid[1] # "" THEN { "uuid" } ELSE {})
    IN  [ f \in provided |->
            IF f = "max_amount_usd" THEN max_amount_usd
            ELSE IF f = "status" THEN status[1]
            ELSE uuid[1] ]

CreateIntent ==
    /\ \E status \in StatusArgs, uuid \in { None, Some(INTENT_ID) } :
       \E payload \in { CreateIntentPayload(intent.max_amount_usd, status, uuid) } :
          /\ last_call' = Some([ op |-> "create_intent", status |-> status, uuid |-> uuid ])
          /\ table' = Insert(table, payload)
          /\ last_write' = Some(payload)
    /\ UNCHANGED << orch_vars, turn_vars, input_vars, mcp_vars, endpoint_vars, capture_vars,
                    side_vars, initiate_vars, transfers >>

NextStore ==
    \/ Next
    \/ NextInitiate
    \/ UpdateIntentWithTransactions
    \/ MarkIntentComplete
    \/ CreateTestIntent
    \/ CreateIntent

SpecStore == InitStore /\ [][NextStore]_vars


\* ========================================================== call_tool
\* call_tool invocations made on the client
MaxCalls == 3

\* the most lines the body of a reply has
MaxLines == 2

\* the JSON objects a data line can hold: {} and objects with a result key, an
\* error key or both
JsonObjects ==
    { [ k \in keys |-> IF k = "result" THEN [ status |-> "sent" ] ELSE "declined" ] :
        keys \in SUBSET {"result", "error"} }

\* a line of the body: `data` is line.startswith('data: '), `well_formed` is
\* whether json.loads(line[6:]) returns (with `value`) or raises JSONDecodeError
BodyLines ==
    { [ data |-> FALSE, well_formed |-> FALSE, value |-> << >> ],
      [ data |-> TRUE, well_formed |-> FALSE, value |-> << >> ] }
        \cup { [ data |-> TRUE, well_formed |-> TRUE, value |-> o ] : o \in JsonObjects }

BodiesOf(n) == UNION { [ 1..m -> BodyLines ] : m \in 0..n }

McpResponses == [ status_code : {200, 500}, lines : BodiesOf(MaxLines) ]

\* the first element of a sequence of lines that is a data line holding
\* well-formed JSON, by index
FirstWellFormedIn(lines) ==
    LET hits == { k \in 1..Len(lines) : lines[k].data /\ lines[k].well_formed }
    IN  IF hits = {} THEN None
        ELSE Some(lines[CHOOSE k \in hits : \A j \in hits : k <= j].value)

\* call_tool lines 67-77: result_data after the loop over the lines, None when
\* no data line parsed; the loop breaks at the first line that parses
RECURSIVE ParseLines(_)
ParseLines(lines) ==
    IF lines = << >> THEN None
    ELSE IF Head(lines).data /\ Head(lines).well_formed
         THEN Some(Head(lines).value)
         ELSE ParseLines(Tail(lines))

\* `not result_data`: None, and a parsed object without keys as well
NotResultData(result_data) == result_data = None \/ DOMAIN result_data[1] = {}

\* call_tool lines 58-83 on a reply: how the invocation ends and what it returns
call_tool(response) ==
    IF response.status_code # 200
    THEN [ outcome |-> "http_error", returned |-> None ]
    ELSE LET result_data == ParseLines(response.lines)
         IN  IF NotResultData(result_data)
             THEN [ outcome |-> "unparseable", returned |-> None ]
             ELSE IF "error" \in DOMAIN result_data[1]
             THEN [ outcome |-> "tool_error", returned |-> None ]
             ELSE [ outcome |-> "result",
                    returned |-> Some(IF "result" \in DOMAIN result_data[1]
                                      THEN result_data[1].result
                                      ELSE << >>) ]

\* a mutation of NextRequestId: the counter is not advanced
NextRequestId_Same(id) == id

\* payments.py line 37: `self.request_id += 1`
NextRequestId(id) == id + 1

\* one LocusMCPClient, just constructed, used by one caller
InitMcp ==
    /\ environ = [ BUYER_AGENT_WALLET_API_KEY |-> "locus_key",
                   SELLER_AGENT_WALLET_ADDRESS |-> SELLER_ADDRESS,
                   USER_WALLET_ADDRESS |-> USER_ADDRESS ]
    /\ intent = [ max_amount_usd |-> Dollars(100, 0) ]
    /\ protocol = "http"
    /\ max_rounds = 0
    /\ pc = "mcp"
    /\ round_num = 0
    /\ conversation_history = << >>
    /\ result = None
    /\ calls = << >>
    /\ replies = << >>
    /\ request = None
    /\ TurnIdle
    /\ transfers = << >>
    /\ table = Some(LiveRow(INTENT_ID, intent.max_amount_usd))
    /\ StoreIdle
    /\ McpIdle
    /\ EndpointIdle
    /\ CaptureIdle
    /\ SideIdle
    /\ InitiateIdle
    /\ buyer_agent_url = Some("buyer_url")

\* call_tool line 37: the invocation starts and advances the counter
CallToolEnter ==
    /\ rpc_pc = "idle"
    /\ Len(rpc_log) < MaxCalls
    /\ request_id' = NextRequestId(request_id)
    /\ rpc_pc' = "entered"
    /\ UNCHANGED << rpc_log, mcp_response >>
    /\ UNCHANGED << orch_vars, turn_vars, input_vars, store_vars, initiate_vars, transfers,
                    endpoint_vars, capture_vars, side_vars >>

\* call_tool lines 39-56: the request is built with "id": self.request_id and
\* posted
CallToolPost ==
    /\ rpc_pc = "entered"
    /\ rpc_log' = Append(rpc_log, [ id |-> request_id, outcome |-> "pending",
                                    returned |-> None ])
    /\ rpc_pc' = "posted"
    /\ UNCHANGED << request_id, mcp_response >>
    /\ UNCHANGED << orch_vars, turn_vars, input_vars, store_vars, initiate_vars, transfers,
                    endpoint_vars, capture_vars, side_vars >>

\* call_tool line 40: client.post returns the server's reply
CallToolReply ==
    /\ rpc_pc = "posted"
    /\ mcp_response' \in { Some(r) : r \in McpResponses }
    /\ rpc_pc' = "replied"
    /\ UNCHANGED << request_id, rpc_log >>
    /\ UNCHANGED << orch_vars, turn_vars, input_vars, store_vars, initiate_vars, transfers,
                    endpoint_vars, capture_vars, side_vars >>

\* call_tool lines 58-83: the reply is read; the invocation returns or raises
CallToolReturn ==
    /\ rpc_pc = "replied"
    /\ \E r \in { call_tool(mcp_response[1]) } :
          rpc_log' = [ rpc_log EXCEPT ![Len(rpc_log)].outcome = r.outcome,
                                      ![Len(rpc_log)].returned = r.returned ]
    /\ mcp_response' = None
    /\ rpc_pc' = "idle"
    /\ UNCHANGED request_id
    /\ UNCHANGED << orch_vars, turn_vars, input_vars, store_vars, initiate_vars, transfers,
                    endpoint_vars, capture_vars, side_vars >>

NextMcp ==
    \/ CallToolEnter
    \/ CallToolPost
    \/ CallToolReply
    \/ CallToolReturn

SpecMcp == InitMcp /\ [][NextMcp]_vars

\* the coroutines that share one LocusMCPClient
MaxCallers == 2

Callers == 1..MaxCallers

\* one LocusMCPClient, just constructed, shared by the coroutines of Callers,
\* none of them in call_tool
InitMcpShared ==
    /\ environ = [ BUYER_AGENT_WALLET_API_KEY |-> "locus_key",
                   SELLER_AGENT_WALLET_ADDRESS |-> SELLER_ADDRESS,
                   USER_WALLET_ADDRESS |-> USER_ADDRESS ]
    /\ intent = [ max_amount_usd |-> Dollars(100, 0) ]
    /\ protocol = "http"
    /\ max_rounds = 0
    /\ pc = "mcp"
    /\ round_num = 0
    /\ conversation_history = << >>
    /\ result = None
    /\ calls = << >>
    /\ replies = << >>
    /\ request = None
    /\ TurnIdle
    /\ transfers = << >>
    /\ table = Some(LiveRow(INTENT_ID, intent.max_amount_usd))
    /\ StoreIdle
    /\ McpIdle
    /\ EndpointIdle
    /\ CaptureIdle
    /\ payers = << >>
    /\ callers = [ c \in Callers |-> [ pc |-> "idle", sent |-> << >> ] ]
    /\ tracker_call = None
    /\ server_port = 0
    /\ ngrok_process = None
    /\ procs = << >>
    /\ stops = 0
    /\ InitiateIdle
    /\ buyer_agent_url = Some("buyer_url")

\* call_tool line 37 in coroutine c: `self.request_id += 1`, with no
\* suspension inside the statement
SharedCallToolEnter(c) ==
    /\ callers[c].pc = "idle"
    /\ request_id < MaxCalls
    /\ request_id' = NextRequestId(request_id)
    /\ callers' = [ callers EXCEPT ![c].pc = "entered" ]
    /\ UNCHANGED << rpc_pc, rpc_log, mcp_response >>
    /\ UNCHANGED << payers, tracker_call, server_port, ngrok_process, procs, stops >>
    /\ UNCHANGED << orch_vars, turn_vars, input_vars, store_vars, initiate_vars, transfers,
                    endpoint_vars, capture_vars >>

\* call_tool lines 39-56 in coroutine c, resumed after `async with
\* httpx.AsyncClient(...)`: the request is built with "id": self.request_id,
\* the counter as it is now, and posted
SharedCallToolPost(c) ==
    /\ callers[c].pc = "entered"
    /\ rpc_log' = Append(rpc_log, [ id |-> request_id, outcome |-> "pending",
                                    returned |-> None ])
    /\ callers' = [ callers EXCEPT ![c].pc = "posted",
                                   ![c].sent = Append(@, request_id) ]
    /\ UNCHANGED << request_id, rpc_pc, mcp_response >>
    /\ UNCHANGED << payers, tracker_call, server_port, ngrok_process, procs, stops >>
    /\ UNCHANGED << orch_vars, turn_vars, input_vars, store_vars, initiate_vars, transfers,
                    endpoint_vars, capture_vars >>

\* call_tool lines 58-83 in coroutine c: the invocation returns or raises
SharedCallToolReturn(c) ==
    /\ callers[c].pc = "posted"
    /\ callers' = [ callers EXCEPT ![c].pc = "idle" ]
    /\ UNCHANGED << request_id, rpc_pc, rpc_log, mcp_response >>
    /\ UNCHANGED << payers, tracker_call, server_port, ngrok_process, procs, stops >>
    /\ UNCHANGED << orch_vars, turn_vars, input_vars, store_vars, initiate_vars, transfers,
                    endpoint_vars, capture_vars >>

NextMcpShared ==
    \E c \in Callers :
        \/ SharedCallToolEnter(c)
        \/ SharedCallToolPost(c)
        \/ SharedCallToolReturn(c)

SpecMcpShared == InitMcpShared /\ [][NextMcpShared]_vars

\* ---------------------------------------------------------------------------
\* transaction_tracker.py: the block-explorer lookup

\* the longest transaction list the explorer returns
MaxTxs == 2

\* an expected amount is held in tenths of a USDC base unit (0.0000001 USD)
TenthsPerBaseUnit == 10

\* transaction_tracker.py line 61: `int(expected_amount_usd * 1_000_000)`, the
\* expected amount in base units, cut to a whole number
ExpectedWei(expected) == expected \div TenthsPerBaseUnit

\* transaction_tracker.py line 65:
\* `abs(tx_value - expected_wei) / expected_wei < 0.01`, for expected_wei > 0
WithinTolerance(tx_value, expected_wei) ==
    (IF tx_value >= expected_wei THEN tx_value - expected_wei
                                 ELSE expected_wei - tx_value) * 100 < expected_wei

\* the on-chain values of the listed transactions, in base units: none, and
\* values at and next to 1% below and above 1000
TxValues == { 0, 990, 991, 1009, 1010 }

\* the lists the explorer returns, most recent first; the k-th transaction
\* listed has the hash k
TxLists == UNION { [ 1..n -> TxValues ] : n \in 0..MaxTxs }

\* expected_amount_usd: not given, 0.0, half a base unit, 1000 base units
ExpectedAmounts == { None, Some(0), Some(5), Some(1000 * TenthsPerBaseUnit) }

Absent == [ kind |-> "absent", hash |-> 0 ]

\* transaction_tracker.py lines 57-69: the loop over data["result"] from the
\* k-th transaction on; line 65 divides by expected_wei
RECURSIVE ScanTxs(_, _, _)
ScanTxs(txs, k, expected) ==
    IF k > Len(txs) THEN Absent
    ELSE IF expected # None /\ expected[1] # 0
         THEN IF ExpectedWei(expected[1]) = 0
              THEN [ kind |-> "raised", hash |-> 0 ]
              ELSE IF WithinTolerance(txs[k], ExpectedWei(expected[1]))
                   THEN [ kind |-> "hash", hash |-> k ]
                   ELSE ScanTxs(txs, k + 1, expected)
         ELSE [ kind |-> "hash", hash |-> k ]

\* transaction_tracker.py lines 20-71
get_latest_tx_to(api_key, recipient, status, txs, expected) ==
    IF api_key = "" \/ recipient = "" THEN Absent
    ELSE IF status = "1" /\ txs # << >> THEN ScanTxs(txs, 1, expected)
    ELSE Absent

\* nothing has run and no lookup was made
InitTracker == InitMcp

\* one call of get_latest_tx_to, with the explorer's answer
GetLatestTxTo ==
    /\ tracker_call = None
    /\ \E api_key \in { "", "etherscan_key" }, recipient \in { "", USER_ADDRESS },
          status \in { "0", "1" }, txs \in TxLists, expected \in ExpectedAmounts :
          tracker_call' = Some([ api_key |-> api_key, recipient |-> recipient,
                                 status |-> status, txs |-> txs, expected |-> expected,
                                 returned |-> get_latest_tx_to(api_key, recipient, status,
                                                               txs, expected) ])
    /\ UNCHANGED << payers, callers, server_port, ngrok_process, procs, stops >>
    /\ UNCHANGED << orch_vars, turn_vars, input_vars, store_vars, mcp_vars, initiate_vars,
                    transfers, endpoint_vars, capture_vars >>

NextTracker == GetLatestTxTo

SpecTracker == InitTracker /\ [][NextTracker]_vars


\* ============================ POST /intent/{id}/update-transactions
\* SERVICE_NAME as the deployments set it, unset, and in capitals
ServiceNames == { "", "buyer", "seller", "SELLER" }

\* str.lower() on the service names
Lower(name) == IF name = "SELLER" THEN "seller" ELSE name

Services ==
    [ SERVICE_NAME : ServiceNames, TRACKER_AVAILABLE : BOOLEAN,
      ETHERSCAN_API_KEY : {"", "etherscan_key"} ]

\* what get_latest_tx_to finds at the explorer: no transaction, or a hash
ExplorerAnswers == { None, Some("0xabc") }

\* get_latest_tx_to line 34: without an API key or a recipient nothing is asked
WillQuery(api_key, recipient) == api_key # "" /\ recipient # ""

InitEndpoint ==
    /\ environ \in Environs
    /\ intent = [ max_amount_usd |-> Dollars(100, 0) ]
    /\ protocol = "http"
    /\ max_rounds = 0
    /\ pc = "endpoint"
    /\ round_num = 0
    /\ conversation_history = << >>
    /\ result = None
    /\ calls = << >>
    /\ replies = << >>
    /\ request = None
    /\ TurnIdle
    /\ transfers = << >>
    /\ table \in { None, Some(LiveRow(INTENT_ID, intent.max_amount_usd)) }
    /\ StoreIdle
    /\ McpIdle
    /\ service \in Services
    /\ explorer_queries = << >>
    /\ endpoint_status = 0
    /\ CaptureIdle
    /\ SideIdle
    /\ InitiateIdle
    /\ buyer_agent_url = Some("buyer_url")

\* manually_update_transactions (main.py lines 264-298) answering without a
\* failure of the explorer: 501, 403, or the two look-ups and the update
ManuallyUpdateTransactions ==
    /\ pc = "endpoint"
    /\ endpoint_status = 0
    /\ IF ~service.TRACKER_AVAILABLE
       THEN /\ endpoint_status' = 501
            /\ UNCHANGED << explorer_queries, store_vars >>
       ELSE IF Lower(service.SERVICE_NAME) = "seller"
       THEN /\ endpoint_status' = 403
            /\ UNCHANGED << explorer_queries, store_vars >>
       ELSE \E seller_answer \in ExplorerAnswers, user_answer \in ExplorerAnswers :
            LET seller_wallet == environ.SELLER_AGENT_WALLET_ADDRESS
                user_wallet == environ.USER_WALLET_ADDRESS
                ask_seller == WillQuery(service.ETHERSCAN_API_KEY, seller_wallet)
                ask_user == WillQuery(service.ETHERSCAN_API_KEY, user_wallet)
                seller_tx == IF ask_seller THEN seller_answer ELSE None
                user_tx == IF ask_user THEN user_answer ELSE None
                updates == HashUpdates(seller_tx, user_tx)
            IN  /\ explorer_queries' =
                      explorer_queries
                          \o (IF ask_seller THEN << seller_wallet >> ELSE << >>)
                          \o (IF ask_user THEN << user_wallet >> ELSE << >>)
                /\ last_call' = Some([ op |-> "update_intent_with_transactions",
                                       tx_buyer_to_seller |-> seller_tx,
                                       tx_buyer_to_user |-> user_tx ])
                /\ IF DOMAIN updates # {}
                   THEN /\ table' = ApplyUpdate(table, INTENT_ID, updates)
                        /\ last_write' = Some(updates)
                   ELSE /\ table' = table
                        /\ last_write' = None
                /\ endpoint_status' = 200
    /\ UNCHANGED service
    /\ UNCHANGED << orch_vars, turn_vars, input_vars, mcp_vars, capture_vars, side_vars,
                    initiate_vars,
                    transfers >>

\* the same request when the first look-up at the explorer raises: the
\* exception leaves the handler, nothing is written
UpdateTransactionsExplorerFails ==
    /\ pc = "endpoint"
    /\ endpoint_status = 0
    /\ service.TRACKER_AVAILABLE
    /\ Lower(service.SERVICE_NAME) # "seller"
    /\ \E recipient \in { environ.SELLER_AGENT_WALLET_ADDRESS, environ.USER_WALLET_ADDRESS } :
          /\ WillQuery(service.ETHERSCAN_API_KEY, recipient)
          /\ recipient = environ.USER_WALLET_ADDRESS =>
                ~WillQuery(service.ETHERSCAN_API_KEY, environ.SELLER_AGENT_WALLET_ADDRESS)
          /\ explorer_queries' = Append(explorer_queries, recipient)
    /\ endpoint_status' = 500
    /\ UNCHANGED << service, store_vars >>
    /\ UNCHANGED << orch_vars, turn_vars, input_vars, mcp_vars, capture_vars, side_vars,
                    initiate_vars,
                    transfers >>

NextEndpoint ==
    \/ ManuallyUpdateTransactions
    \/ UpdateTransactionsExplorerFails

SpecEndpoint == InitEndpoint /\ [][NextEndpoint]_vars


\* ================================================= the capture service
\* requests the capture service handles
MaxRequests == 2

\* a Flask request as the handlers read it: `files` is request.files, `data`
\* is request.data (the body's bytes, empty when the body was parsed as a
\* form), `json` is the object the body holds when it is JSON text
ImageRequests ==
    { [ route |-> "/locus/image", mimetype |-> "multipart/form-data",
        files |-> f, data |-> "", json |-> << >> ] :
          f \in { << >>, [ image |-> "png" ], [ image |-> "junk" ] } }
    \cup { [ route |-> "/locus/image", mimetype |-> "application/octet-stream",
             files |-> << >>, data |-> d, json |-> << >> ] : d \in {"", "png", "junk"} }
    \cup { [ route |-> "/locus/image", mimetype |-> "application/json",
             files |-> << >>, data |-> "json_text", json |-> j ] :
               j \in { << >>, [ image_path |-> "photo.png" ],
                       [ image_path |-> "missing.png" ] } }
    \cup { [ route |-> "/locus/image", mimetype |-> "application/json",
             files |-> << >>, data |-> "", json |-> << >> ] }

\* the JSON bodies of /locus/intent and /locus/pay: price and item_description
\* each present or not
PriceBodies ==
    { [ k \in keys |-> IF k = "price" THEN Dollars(100, 0) ELSE 0 ] :
        keys \in SUBSET {"price", "item_description"} }

JsonRequests(route) ==
    { [ route |-> route, mimetype |-> "application/json", files |-> << >>,
        data |-> "json_text", json |-> j ] : j \in PriceBodies }

\* Image.open on bytes or on a path: the image decoded, None when it raises
ImageOpen(source) ==
    IF source = "png" THEN Some("png")
    ELSE IF source = "photo.png" THEN Some("photo")
    ELSE None

\* request.get_json(): None (a 400 raised by Flask) when the body is empty
GetJson(req) == IF req.data = "" THEN None ELSE Some(req.json)

\* upload_image lines 94-109: the image the handler opens, as the outcome
\* "open" with the thing handed to Image.open, or the 400 it answers with
ImageSource(req) ==
    IF "image" \in DOMAIN req.files
    THEN [ outcome |-> "open", source |-> req.files.image ]
    ELSE IF req.data # ""
    THEN [ outcome |-> "open", source |-> req.data ]
    ELSE IF req.mimetype = "application/json"
    THEN IF GetJson(req) = None
         THEN [ outcome |-> "400", source |-> "" ]
         ELSE IF "image_path" \in DOMAIN GetJson(req)[1]
         THEN [ outcome |-> "open", source |-> GetJson(req)[1].image_path ]
         ELSE [ outcome |-> "400", source |-> "" ]
    ELSE [ outcome |-> "400", source |-> "" ]

Handled(req, status) == Append(capture_log, [ request |-> req, status |-> status ])

InitCapture ==
    /\ environ = [ BUYER_AGENT_WALLET_API_KEY |-> "locus_key",
                   SELLER_AGENT_WALLET_ADDRESS |-> SELLER_ADDRESS,
                   USER_WALLET_ADDRESS |-> USER_ADDRESS ]
    /\ intent = [ max_amount_usd |-> Dollars(100, 0) ]
    /\ protocol = "http"
    /\ max_rounds = 0
    /\ pc = "capture"
    /\ round_num = 0
    /\ conversation_history = << >>
    /\ result = None
    /\ calls = << >>
    /\ replies = << >>
    /\ request = None
    /\ TurnIdle
    /\ transfers = << >>
    /\ table = None
    /\ StoreIdle
    /\ McpIdle
    /\ EndpointIdle
    /\ locus_api_key \in {"", "locus_key"}
    /\ capture_log = << >>
    /\ image_file \in { None, Some("earlier") }
    /\ uploads = << >>
    /\ intents_created = << >>
    /\ payments = << >>
    /\ SideIdle
    /\ InitiateIdle
    /\ buyer_agent_url = Some("buyer_url")

\* upload_image (server.py lines 91-117); an exception of Image.open leaves the
\* handler and Flask answers 500
UploadImage ==
    /\ pc = "capture"
    /\ Len(capture_log) < MaxRequests
    /\ \E req \in ImageRequests :
          LET src == ImageSource(req)
              image == IF src.outcome = "open" THEN ImageOpen(src.source) ELSE None
          IN  IF src.outcome = "400"
              THEN /\ capture_log' = Handled(req, 400)
                   /\ UNCHANGED image_file
              ELSE IF image = None
              THEN /\ capture_log' = Handled(req, 500)
                   /\ UNCHANGED image_file
              ELSE /\ capture_log' = Handled(req, 200)
                   /\ image_file' = image
    /\ UNCHANGED << locus_api_key, uploads, intents_created, payments >>
    /\ UNCHANGED << orch_vars, turn_vars, input_vars, store_vars, mcp_vars, endpoint_vars,
                    side_vars, initiate_vars, transfers >>

\* make_intent (server.py lines 119-144): the saved image is read and uploaded,
\* then float(price) is evaluated and the intent created; every exception
\* leaves the handler and Flask answers 500
MakeIntent ==
    /\ pc = "capture"
    /\ Len(capture_log) < MaxRequests
    /\ \E req \in JsonRequests("/locus/intent"), stored \in BOOLEAN, created \in BOOLEAN :
          LET data == req.json
              image_uuid == Len(uploads) + 1
          IN  IF image_file = None \/ ~stored
              THEN /\ capture_log' = Handled(req, 500)
                   /\ UNCHANGED << uploads, intents_created >>
              ELSE /\ uploads' = Append(uploads, [ image_uuid |-> image_uuid,
                                                   image_data |-> image_file[1] ])
                   /\ IF "price" \notin DOMAIN data \/ ~created
                      THEN /\ capture_log' = Handled(req, 500)
                           /\ UNCHANGED intents_created
                      ELSE /\ capture_log' = Handled(req, 200)
                           /\ intents_created' =
                                 Append(intents_created,
                                        [ image_uuid |-> image_uuid,
                                          max_amount_usd |-> data.price,
                                          description |->
                                              "item_description" \in DOMAIN data ])
    /\ UNCHANGED << locus_api_key, image_file, payments >>
    /\ UNCHANGED << orch_vars, turn_vars, input_vars, store_vars, mcp_vars, endpoint_vars,
                    side_vars, initiate_vars, transfers >>

\* make_payment (server.py lines 146-170)
MakePayment ==
    /\ pc = "capture"
    /\ Len(capture_log) < MaxRequests
    /\ \E req \in JsonRequests("/locus/pay"), ok \in BOOLEAN :
          LET data == req.json
          IN  IF "price" \notin DOMAIN data
              THEN /\ capture_log' = Handled(req, 400)
                   /\ UNCHANGED payments
              ELSE IF locus_api_key = ""
              THEN /\ capture_log' = Handled(req, 500)
                   /\ UNCHANGED payments
              ELSE /\ payments' = Append(payments, [ amount |-> data.price, ok |-> ok ])
                   /\ capture_log' = Handled(req, IF ok THEN 200 ELSE 500)
    /\ UNCHANGED << locus_api_key, image_file, uploads, intents_created >>
    /\ UNCHANGED << orch_vars, turn_vars, input_vars, store_vars, mcp_vars, endpoint_vars,
                    side_vars, initiate_vars, transfers >>

NextCapture ==
    \/ UploadImage
    \/ MakeIntent
    \/ MakePayment

SpecCapture == InitCapture /\ [][NextCapture]_vars

\* ---------------------------------------------------------------------------
\* server.py: start_server and stop_server

\* the other local processes beside the tunnel, and the calls of stop_server
MaxProcs == 2
MaxStops == 2

\* the tunnel process is process 0
TunnelPid == 0

OtherPids == 1..MaxProcs

\* server.py line 173: the default port, and another port to start on
DefaultPort == 3000
OtherPort == DefaultPort + 2000

\* server.py line 205: `if conn.laddr.port == 3000`
SweepPort == 3000

\* a mutation of Signalled: terminate only, no forced kill
Signalled_NoKill(p) ==
    IF ~p.running THEN p
    ELSE [ p EXCEPT !.running = p.stubborn, !.signals = Append(@, "terminate") ]

\* server.py lines 194-198 and 206-210: terminate, wait up to 5 seconds, kill
\* if the process has not exited by then; a process that has exited already
\* gets no signal
Signalled(p) ==
    IF ~p.running THEN p
    ELSE [ p EXCEPT !.running = FALSE,
                    !.signals = @ \o (IF p.stubborn THEN << "terminate", "kill" >>
                                                    ELSE << "terminate" >>) ]

\* a process as it runs before any signal
Running(port, stubborn) ==
    [ running |-> TRUE, port |-> port, stubborn |-> stubborn, signals |-> << >> ]

\* the capture service's module is loaded (line 20: ngrok_process = None) and
\* not started; the other processes run, bound to the default port, to the
\* other port or to none, and exit on terminate or not
InitServer ==
    /\ environ = [ BUYER_AGENT_WALLET_API_KEY |-> "locus_key",
                   SELLER_AGENT_WALLET_ADDRESS |-> SELLER_ADDRESS,
                   USER_WALLET_ADDRESS |-> USER_ADDRESS ]
    /\ intent = [ max_amount_usd |-> Dollars(100, 0) ]
    /\ protocol = "http"
    /\ max_rounds = 0
    /\ pc = "capture"
    /\ round_num = 0
    /\ conversation_history = << >>
    /\ result = None
    /\ calls = << >>
    /\ replies = << >>
    /\ request = None
    /\ TurnIdle
    /\ transfers = << >>
    /\ table = None
    /\ StoreIdle
    /\ McpIdle
    /\ EndpointIdle
    /\ CaptureIdle
    /\ payers = << >>
    /\ callers = << >>
    /\ tracker_call = None
    /\ server_port = 0
    /\ ngrok_process = None
    /\ procs \in { f \in [ {TunnelPid} \cup OtherPids ->
                             { Running(port, stubborn) :
                                 port \in { 0, DefaultPort, OtherPort },
                                 stubborn \in BOOLEAN }
                             \cup { [ Running(0, FALSE) EXCEPT !.running = FALSE ] } ] :
                     /\ ~f[TunnelPid].running
                     /\ \A pid \in OtherPids : f[pid].running }
    /\ stops = 0
    /\ InitiateIdle
    /\ buyer_agent_url = Some("buyer_url")

\* start_server(port), lines 173-186: the tunnel is launched and its handle
\* kept, then app.run serves on the port
StartServer ==
    /\ server_port = 0
    /\ \E port \in { DefaultPort, OtherPort }, stubborn \in BOOLEAN :
          /\ server_port' = port
          /\ procs' = [ procs EXCEPT ![TunnelPid] = Running(0, stubborn) ]
    /\ ngrok_process' = Some(TunnelPid)
    /\ UNCHANGED << payers, callers, tracker_call, stops >>
    /\ UNCHANGED << orch_vars, turn_vars, input_vars, store_vars, mcp_vars, initiate_vars,
                    transfers, endpoint_vars, capture_vars >>

\* a running process exits by itself
ProcessExits ==
    /\ \E pid \in DOMAIN procs :
          /\ procs[pid].running
          /\ procs' = [ procs EXCEPT ![pid].running = FALSE ]
    /\ UNCHANGED << payers, callers, tracker_call, server_port, ngrok_process, stops >>
    /\ UNCHANGED << orch_vars, turn_vars, input_vars, store_vars, mcp_vars, initiate_vars,
                    transfers, endpoint_vars, capture_vars >>

\* stop_server, lines 188-212: the tunnel of the stored handle is stopped and
\* the handle cleared, then every process with a connection on port 3000 is
\* stopped
StopServer ==
    /\ stops < MaxStops
    /\ procs' = [ pid \in DOMAIN procs |->
                    IF ngrok_process = Some(pid) THEN Signalled(procs[pid])
                    ELSE IF procs[pid].running /\ procs[pid].port = SweepPort
                         THEN Signalled(procs[pid])
                         ELSE procs[pid] ]
    /\ ngrok_process' = None
    /\ stops' = stops + 1
    /\ UNCHANGED << payers, callers, tracker_call, server_port >>
    /\ UNCHANGED << orch_vars, turn_vars, input_vars, store_vars, mcp_vars, initiate_vars,
                    transfers, endpoint_vars, capture_vars >>

NextServer ==
    \/ StartServer
    \/ ProcessExits
    \/ StopServer

SpecServer == InitServer /\ [][NextServer]_vars

\* ---------------------------------------------------------------------------
\* buyer turns for one intent, each in execute_payment on its own

\* the buyer turns requested for the one intent
MaxTurns == 2

Turns == 1..MaxTurns

\* main.py line 90: each request builds its own NegotiationAgent from the
\* intent's row
TurnAgent ==
    NegotiationAgent(intent.max_amount_usd, "buyer", environ.BUYER_AGENT_WALLET_API_KEY)

\* the amounts a turn can have extracted: none, 90% of the budget, the budget
\* less a cent, the budget
TurnAmounts ==
    { None, Some((intent.max_amount_usd \div 10) * 9), Some(intent.max_amount_usd - Cent),
      Some(intent.max_amount_usd) }

\* the transfer a turn asks the gateway for
TurnTransfer(t, address, amount, ok) ==
    [ round_num |-> t, address |-> address, amount |-> amount, ok |-> ok ]

\* where a turn is after a step of execute_payment: "done" once it returns
AfterStep(next) ==
    IF next \in {"send_seller", "send_refund", "send_full_refund"} THEN next ELSE "done"

\* no turn has been requested yet
InitPay ==
    /\ environ \in Environs
    /\ intent = [ max_amount_usd |-> Dollars(100, 0) ]
    /\ protocol = "http"
    /\ max_rounds = 0
    /\ pc = "pay"
    /\ round_num = 0
    /\ conversation_history = << >>
    /\ result = None
    /\ calls = << >>
    /\ replies = << >>
    /\ request = None
    /\ TurnIdle
    /\ transfers = << >>
    /\ table = Some(LiveRow(INTENT_ID, intent.max_amount_usd))
    /\ StoreIdle
    /\ McpIdle
    /\ EndpointIdle
    /\ CaptureIdle
    /\ payers = [ t \in Turns |-> [ pc |-> "idle", decision |-> "", amount |-> None ] ]
    /\ callers = << >>
    /\ tracker_call = None
    /\ server_port = 0
    /\ ngrok_process = None
    /\ procs = << >>
    /\ stops = 0
    /\ InitiateIdle
    /\ buyer_agent_url = Some("buyer_url")

\* negotiate lines 182-190 in turn t: the decision and the amount are
\* extracted and, for accept or reject, execute_payment is entered; nothing of
\* an earlier turn of the intent is looked at
TurnDecides(t) ==
    /\ payers[t].pc = "idle"
    /\ \E dec \in {"accept", "reject", "continue"}, amount \in TurnAmounts :
          payers' = [ payers EXCEPT ![t] =
                        [ pc |-> IF PaymentTriggered(TurnAgent, dec)
                                 THEN AfterStep(execute_payment_entry(TurnAgent, environ,
                                                                      dec, amount))
                                 ELSE "done",
                          decision |-> dec,
                          amount |-> amount ] ]
    /\ UNCHANGED << callers, tracker_call, server_port, ngrok_process, procs, stops >>
    /\ UNCHANGED << orch_vars, turn_vars, input_vars, store_vars, mcp_vars, initiate_vars,
                    transfers, endpoint_vars, capture_vars >>

\* execute_payment lines 296-318 in turn t: the transfer to the seller
TurnSendToSeller(t) ==
    /\ payers[t].pc = "send_seller"
    /\ \E ok \in BOOLEAN :
          /\ transfers' = Append(transfers,
                                 TurnTransfer(t, environ.SELLER_AGENT_WALLET_ADDRESS,
                                              payers[t].amount[1], ok))
          /\ payers' = [ payers EXCEPT ![t].pc =
                           AfterStep(AfterSellerTransfer(
                                         ok, Remaining(TurnAgent, payers[t].amount[1]))) ]
    /\ UNCHANGED << callers, tracker_call, server_port, ngrok_process, procs, stops >>
    /\ UNCHANGED << orch_vars, turn_vars, input_vars, store_vars, mcp_vars, initiate_vars,
                    endpoint_vars, capture_vars >>

\* execute_payment lines 306-318 in turn t: the refund of the remaining budget
TurnSendRefund(t) ==
    /\ payers[t].pc = "send_refund"
    /\ \E ok \in BOOLEAN :
          transfers' = Append(transfers,
                              TurnTransfer(t, environ.USER_WALLET_ADDRESS,
                                           Remaining(TurnAgent, payers[t].amount[1]), ok))
    /\ payers' = [ payers EXCEPT ![t].pc = "done" ]
    /\ UNCHANGED << callers, tracker_call, server_port, ngrok_process, procs, stops >>
    /\ UNCHANGED << orch_vars, turn_vars, input_vars, store_vars, mcp_vars, initiate_vars,
                    endpoint_vars, capture_vars >>

\* execute_payment lines 320-331 in turn t: the whole budget goes back
TurnSendFullRefund(t) ==
    /\ payers[t].pc = "send_full_refund"
    /\ \E ok \in BOOLEAN :
          transfers' = Append(transfers,
                              TurnTransfer(t, environ.USER_WALLET_ADDRESS,
                                           FullRefundAmount(TurnAgent), ok))
    /\ payers' = [ payers EXCEPT ![t].pc = "done" ]
    /\ UNCHANGED << callers, tracker_call, server_port, ngrok_process, procs, stops >>
    /\ UNCHANGED << orch_vars, turn_vars, input_vars, store_vars, mcp_vars, initiate_vars,
                    endpoint_vars, capture_vars >>

NextPay ==
    \E t \in Turns :
        \/ TurnDecides(t)
        \/ TurnSendToSeller(t)
        \/ TurnSendRefund(t)
        \/ TurnSendFullRefund(t)

SpecPay == InitPay /\ [][NextPay]_vars


\* ============================================ the extraction functions
\* _extract_decision and _extract_transaction_amount called on their own, on
\* response texts put together from a few fragments
\* the most fragments a response text is put together from
MaxChunks == 2

TextRejectLower ==
    << "d", "e", "c", "i", "s", "i", "o", "n", ":", " ", "r", "e", "j", "e", "c", "t" >>
TextNoBlank ==
    << "D", "E", "C", "I", "S", "I", "O", "N", ":", "A", "C", "C", "E", "P", "T" >>
TextOverBudget ==
    << "$", "1", "5", "0", ".", "0", "0", " " >>
TextCommas ==
    << ",", " " >>
TextOneCent ==
    << "0", ".", "0", "1", " " >>

Chunks ==
    { DECISION_ACCEPT, TextAccept, DECISION_REJECT, TextRejectLower, TextNoBlank,
      TextPrice, TextOverBudget, TextCommas, TextOneCent, TextCounter }

\* the texts of exactly n fragments
RECURSIVE TextsOf(_)
TextsOf(n) ==
    IF n = 0 THEN { << >> }
    ELSE Eval(LAMBDA shorter : { t \o c : t \in shorter, c \in Chunks }, TextsOf(n - 1))

ResponseTexts == UNION { TextsOf(n) : n \in 0..MaxChunks }

\* max_amount_usd of the agents the functions are called on: $100.00, $0.02, $0.01
ExtractBudgets == { Dollars(100, 0), Dollars(0, 2), Dollars(0, 1) }

InitExtract ==
    /\ environ \in { e \in Environs : e.SELLER_AGENT_WALLET_ADDRESS # ""
                                       /\ e.USER_WALLET_ADDRESS # "" }
    /\ intent \in [ max_amount_usd : ExtractBudgets ]
    /\ protocol = "http"
    /\ max_rounds = 0
    /\ pc = "extract"
    /\ round_num = 0
    /\ conversation_history = << >>
    /\ result = None
    /\ calls = << >>
    /\ replies = << >>
    /\ request = None
    /\ turn_pc = "extract"
    /\ \E agent_type \in {"buyer", "seller"} :
          agent = NegotiationAgent(intent.max_amount_usd, agent_type,
                                   environ.BUYER_AGENT_WALLET_API_KEY)
    /\ turn_input = None
    /\ llm_stream = << >>
    /\ full_response \in ResponseTexts
    /\ decision = ""
    /\ transaction_amount = None
    /\ payment_result = None
    /\ events = << >>
    /\ a2a_messages = << >>
    /\ status_code = 0
    /\ transfers = << >>
    /\ table = Some(LiveRow(INTENT_ID, intent.max_amount_usd))
    /\ StoreIdle
    /\ McpIdle
    /\ EndpointIdle
    /\ CaptureIdle
    /\ SideIdle
    /\ InitiateIdle
    /\ buyer_agent_url = Some("buyer_url")

\* decision = self._extract_decision(full_response)
CallExtractDecision ==
    /\ turn_pc = "extract"
    /\ decision' = extract_decision(full_response)
    /\ turn_pc' = "decision"
    /\ UNCHANGED << agent, turn_input, llm_stream, full_response, transaction_amount,
                    payment_result, events, a2a_messages >>
    /\ UNCHANGED status_code
    /\ UNCHANGED << orch_vars, input_vars, store_vars, mcp_vars, endpoint_vars, capture_vars,
                    side_vars, initiate_vars, transfers >>

\* self._extract_transaction_amount(full_response, decision), for any decision
CallExtractTransactionAmount ==
    /\ turn_pc = "extract"
    /\ \E dec \in {"accept", "reject", "continue"} :
          /\ turn_input' = [ response |-> full_response, decision |-> dec ]
          /\ transaction_amount' = extract_transaction_amount(agent, full_response, dec)
    /\ turn_pc' = "amount"
    /\ UNCHANGED << agent, llm_stream, full_response, decision, payment_result,
                    events, a2a_messages >>
    /\ UNCHANGED status_code
    /\ UNCHANGED << orch_vars, input_vars, store_vars, mcp_vars, endpoint_vars, capture_vars,
                    side_vars, initiate_vars, transfers >>

\* the places where a reply text is cut into two text parts: before it, in its
\* middle, after it
Cuts(text) == { 0, Len(text) \div 2, Len(text) }

\* _call_agent_a2a lines 154-170 on a reply whose two text parts make up the
\* response text
CallAgentA2A ==
    /\ turn_pc = "extract"
    /\ \E i \in Cuts(full_response) :
          a2a_messages' = << SubSeq(full_response, 1, i),
                             SubSeq(full_response, i + 1, Len(full_response)) >>
    /\ decision' = call_agent_a2a(a2a_messages').decision
    /\ turn_pc' = "a2a_decision"
    /\ UNCHANGED << agent, turn_input, llm_stream, full_response, transaction_amount,
                    payment_result, events >>
    /\ UNCHANGED status_code
    /\ UNCHANGED << orch_vars, input_vars, store_vars, mcp_vars, endpoint_vars, capture_vars,
                    side_vars, initiate_vars, transfers >>

NextExtract ==
    \/ CallExtractDecision
    \/ CallExtractTransactionAmount
    \/ CallAgentA2A

SpecExtract == InitExtract /\ [][NextExtract]_vars

\* the orchestrated run together with the functions on their own: the decision
\* of the A2A path on every text, and the histories of whole runs
SpecA2A == (Init \/ InitExtract) /\ [][Next \/ NextExtract]_vars

\* ------------------------------------------------- agent construction
\* NegotiationAgent(intent_data, agent_type) on its own, over budgets from
\* $0.00 up to MaxDollars dollars and the two budgets of test_seller_agent.py.
MaxDollars == 2

AgentBudgets ==
    { Dollars(d, c) : d \in 0..MaxDollars, c \in {0, 1, 50, 99} }
        \cup { Dollars(15000, 0), Dollars(10000, 0) }

InitAgent ==
    /\ environ \in Environs
    /\ intent \in [ max_amount_usd : AgentBudgets ]
    /\ protocol = "http"
    /\ max_rounds = 0
    /\ pc = "construct"
    /\ round_num = 0
    /\ conversation_history = << >>
    /\ result = None
    /\ calls = << >>
    /\ replies = << >>
    /\ request = None
    /\ turn_pc = "construct"
    /\ agent = None
    /\ turn_input = None
    /\ llm_stream = << >>
    /\ full_response = << >>
    /\ decision = ""
    /\ transaction_amount = None
    /\ payment_result = None
    /\ events = << >>
    /\ a2a_messages = << >>
    /\ status_code = 0
    /\ transfers = << >>
    /\ table = Some(LiveRow(INTENT_ID, intent.max_amount_usd))
    /\ StoreIdle
    /\ McpIdle
    /\ EndpointIdle
    /\ CaptureIdle
    /\ SideIdle
    /\ InitiateIdle
    /\ buyer_agent_url = Some("buyer_url")

\* agent = NegotiationAgent(intent_data, agent_type)
Construct ==
    /\ turn_pc = "construct"
    /\ \E agent_type \in {"buyer", "seller"} :
          agent' = NegotiationAgent(intent.max_amount_usd, agent_type,
                                    environ.BUYER_AGENT_WALLET_API_KEY)
    /\ turn_pc' = "constructed"
    /\ UNCHANGED << turn_input, llm_stream, full_response, decision,
                    transaction_amount, payment_result, events, a2a_messages >>
    /\ UNCHANGED status_code
    /\ UNCHANGED << orch_vars, input_vars, store_vars, mcp_vars, endpoint_vars, capture_vars,
                    side_vars, initiate_vars, transfers >>

NextAgent == Construct

SpecAgent == InitAgent /\ [][NextAgent]_vars

\* ================================================================ claims
Terminal(d) == d \in {"accept", "reject"}

\* C1: the first round whose returned decision is accept ends the run with
\* status success and outcome accepted, the first whose decision is reject with
\* status failed and outcome rejected; no agent is called after that round,
\* rounds is the 1-based index of the round and final_decision_by its speaker.
C1_TerminalDecisionEndsRun ==
    \A i \in 1..Len(replies) :
        Terminal(replies[i].decision) =>
            /\ i = Len(replies)
            /\ Len(calls) = i
            /\ pc = "done"
            /\ request = None
            /\ result # None
            /\ result[1].status =
                   (IF replies[i].decision = "accept" THEN "success" ELSE "failed")
            /\ result[1].outcome =
                   (IF replies[i].decision = "accept" THEN "accepted" ELSE "rejected")
            /\ result[1].rounds = i
            /\ result[1].final_decision_by = calls[i].agent_type

\* a run that the buyer's accept ended in its second round
C1_Witness ==
    /\ pc = "done"
    /\ Len(replies) = 2
    /\ replies[2].decision = "accept"
    /\ result[1].final_decision_by = "buyer"

\* the amount a message states, if it states exactly one
StatedAmount(message) ==
    Eval(LAMBDA found : IF Len(found) = 1 THEN ParseAmount(found[1]) ELSE None,
         findall(message))

\* C2: round 0 calls the seller with the opening offer 1.2 x max_amount_usd (to
\* the cent) and an empty history; in a round n > 0 the seller speaks when the
\* history length is even and the buyer when it is odd, and the message is the
\* content of the last history entry; the recorded roles alternate from seller.
C2_SpeakerAlternation ==
    /\ \A i \in 1..Len(calls) :
          LET c == calls[i]
              h == c.conversation_history
          IN  /\ c.round_num = i - 1
              /\ c.url = (IF c.agent_type = "seller" THEN "seller_url" ELSE "buyer_url")
              /\ i = 1 =>
                    /\ c.agent_type = "seller"
                    /\ h = << >>
                    /\ StatedAmount(c.message) # None
                    /\ 10 * StatedAmount(c.message)[1] - 12 * intent.max_amount_usd
                          \in (0 - 5 * Cent)..(5 * Cent)
              /\ i > 1 =>
                    /\ c.agent_type = (IF Len(h) % 2 = 0 THEN "seller" ELSE "buyer")
                    /\ h # << >>
                    /\ c.message = h[Len(h)].content
    /\ \A j \in 1..Len(conversation_history) :
          conversation_history[j].role = (IF j % 2 = 1 THEN "seller" ELSE "buyer")

\* the third round of a run has been called: seller, buyer, seller
C2_Witness ==
    /\ Len(calls) = 3
    /\ Len(conversation_history) = 2
    /\ calls[3].agent_type = "seller"

AllContinue == \A i \in 1..Len(replies) : ~Terminal(replies[i].decision)

\* C3: if every round's decision is continue, a run with round limit N makes
\* exactly N agent calls, records exactly N conversation entries and returns
\* status timeout, outcome max_rounds_reached, rounds N.
C3_TimeoutAfterNRounds ==
    (pc = "done" /\ AllContinue) =>
        /\ Len(calls) = max_rounds
        /\ Len(replies) = max_rounds
        /\ Len(conversation_history) = max_rounds
        /\ result # None
        /\ result[1].status = "timeout"
        /\ result[1].outcome = "max_rounds_reached"
        /\ result[1].rounds = max_rounds
        /\ result[1].conversation = conversation_history

\* a run of two or more rounds, all continue, has returned
C3_Witness ==
    /\ pc = "done"
    /\ AllContinue
    /\ max_rounds >= 2
    /\ Len(calls) = max_rounds

\* C4: for every round limit >= 0 and every sequence of replies the run ends
\* (every call returning) after at most max_rounds agent calls, and the rounds
\* it reports never exceed max_rounds.
C4_BoundedTermination ==
    /\ [](Len(calls) <= max_rounds)
    /\ [](pc = "done" => (result # None /\ result[1].rounds <= max_rounds))
    /\ <>(pc = "done")

\* a run that used up its whole round limit and ended on a decision
C4_Witness ==
    /\ pc = "done"
    /\ max_rounds > 0
    /\ Len(calls) = max_rounds
    /\ result[1].status # "timeout"

\* ---------------------------------------------------------- payments
\* the buyer service has its wallet credential and both addresses
WalletConfigured ==
    /\ environ.BUYER_AGENT_WALLET_API_KEY # ""
    /\ environ.SELLER_AGENT_WALLET_ADDRESS # ""
    /\ environ.USER_WALLET_ADDRESS # ""

\* the send_to_address calls of the turn in progress, in order
TurnTransfers == SelectSeq(transfers, LAMBDA t : t.round_num = round_num)

\* the turn has delivered its final event
TurnFinished ==
    /\ turn_pc = "closed"
    /\ events # << >>
    /\ events[Len(events)].type = "final"

\* execute_payment has returned in a buyer's turn with the wallet configured
PaymentReturned(dec) ==
    /\ turn_pc \in {"final", "closed"}
    /\ decision = dec
    /\ agent # None
    /\ agent.agent_type = "buyer"
    /\ WalletConfigured

\* C5: a run over HTTP that ends with outcome accepted, the buyer service
\* having its wallet credential and both addresses, has made a send_to_address
\* call to the seller address before it returns.
C5_AcceptedRunSettles ==
    ( /\ pc = "done"
      /\ protocol = "http"
      /\ result # None
      /\ result[1].outcome = "accepted"
      /\ WalletConfigured )
    => \E k \in 1..Len(transfers) : transfers[k].address = SELLER_ADDRESS

\* C6: within a turn send_to_address is called only when the agent is a buyer,
\* has a payment client and the decision is accept or reject; for decision
\* continue, for a seller, and for a buyer without a wallet credential, no
\* transfer is made and the final event carries no payment_result.
C6_TransferOnlyForBuyerDecision ==
    turn_pc # "idle" =>
        /\ TurnTransfers # << >> =>
              /\ agent # None
              /\ agent.agent_type = "buyer"
              /\ agent.mcp_client
              /\ environ.BUYER_AGENT_WALLET_API_KEY # ""
              /\ Terminal(decision)
        /\ ( \/ decision = "continue"
             \/ agent # None /\ agent.agent_type = "seller"
             \/ environ.BUYER_AGENT_WALLET_API_KEY = "" ) =>
              /\ TurnTransfers = << >>
              /\ payment_result = None
              /\ TurnFinished => events[Len(events)].payment_result = None

\* a buyer without a wallet credential has accepted and its turn is over
C6_Witness ==
    /\ TurnFinished
    /\ agent # None
    /\ agent.agent_type = "buyer"
    /\ environ.BUYER_AGENT_WALLET_API_KEY = ""
    /\ decision = "accept"
    /\ TurnTransfers = << >>

Qualifies(self, amount_str) ==
    Eval(LAMBDA v : v # None /\ Cent < v[1] /\ v[1] <= self.max_budget,
         ParseAmount(amount_str))

\* the places of the figures of the text that qualify
QualifyingFigures(self, amounts) ==
    { k \in 1..Len(amounts) : Qualifies(self, amounts[k]) }

HasMarker(marker, text) ==
    \E i \in 0..(Len(text) - Len(marker)) :
        \A k \in 1..Len(marker) : ToUpperChar(text[i + k]) = marker[k]

\* C10: _extract_decision returns accept when the text holds DECISION: ACCEPT
\* in any letter case (also when it holds DECISION: REJECT as well), else
\* reject when it holds DECISION: REJECT in any letter case, else continue.
C10_DecisionExtraction ==
    turn_pc = "decision" =>
        /\ decision \in {"accept", "reject", "continue"}
        /\ decision = "accept" <=> HasMarker(DECISION_ACCEPT, full_response)
        /\ decision = "reject" <=> ( /\ ~HasMarker(DECISION_ACCEPT, full_response)
                                     /\ HasMarker(DECISION_REJECT, full_response) )

\* a text with a lower-case reject marker before a mixed-case accept marker
C10_Witness ==
    /\ turn_pc = "decision"
    /\ full_response = TextRejectLower \o TextAccept
    /\ decision = "accept"

\* ----------------------------------------------------- failures, order
\* a transfer of the turn in progress has failed
TransferFailed == \E k \in 1..Len(TurnTransfers) : ~TurnTransfers[k].ok

\* the turn's final event carries the decision and an {error} result
ErrorDelivered ==
    /\ TurnFinished
    /\ events[Len(events)].decision = decision
    /\ events[Len(events)].payment_result # None
    /\ DOMAIN events[Len(events)].payment_result[1] = {"error"}

\* C11: when a send_to_address call fails in execute_payment the exception does
\* not escape: no further transfer is made, execute_payment returns {error:
\* message}, and the buyer's turn goes on to end with its final event, which
\* carries the decision and that error result.
C11_PaymentFailureReported ==
    /\ []( (turn_pc # "idle" /\ TransferFailed) =>
              /\ ~TurnTransfers[Len(TurnTransfers)].ok
              /\ \A k \in 1..(Len(TurnTransfers) - 1) : TurnTransfers[k].ok
              /\ turn_pc \in {"final", "closed"}
              /\ Terminal(decision)
              /\ payment_result # None
              /\ DOMAIN payment_result[1] = {"error"}
              /\ turn_pc = "closed" => ErrorDelivered )
    /\ (turn_pc # "idle" /\ TransferFailed) ~> ErrorDelivered

\* the refund failed after the seller was paid, and the turn has ended
C11_Witness ==
    /\ TurnFinished
    /\ Len(TurnTransfers) = 2
    /\ ~TurnTransfers[2].ok
    /\ ErrorDelivered

\* the contents of the text events, in order
TextContents(evs) ==
    LET texts == SelectSeq(evs, LAMBDA e : e.type = "text")
    IN  [ k \in 1..Len(texts) |-> texts[k].content ]

\* C12: in a turn that completes, the events are the text fragments in the
\* order the LLM stream delivered them, each with is_final = false, followed
\* by exactly one final event (is_final = true), the last event of the turn,
\* whose content is the fragments concatenated in order.
C12_EventOrder ==
    /\ []( TurnFinished =>
              LET n == Len(events)
              IN  /\ \A k \in 1..(n - 1) :
                        events[k].type = "text" /\ ~events[k].is_final
                  /\ events[n].type = "final"
                  /\ events[n].is_final
                  /\ llm_stream = << >>
                  /\ events[n].content = Join(TextContents(events)) )
    /\ [][ (turn_pc = "idle" /\ turn_pc' = "streaming") =>
              (events' = << >> /\ llm_stream' \in LLMReplies) ]_vars
    /\ [][ (turn_pc # "idle" /\ turn_pc' # "idle") =>
              TextContents(events') \o llm_stream' = TextContents(events) \o llm_stream
          ]_vars

\* a turn of two fragments has completed
C12_Witness ==
    /\ TurnFinished
    /\ Len(events) = 3
    /\ events[1].content = TextPrice
    /\ events[2].content = TextAccept

\* the places of the events marked is_final
FinalMarks(evs) == { k \in 1..Len(evs) : evs[k].is_final }

\* C13: a turn that fails after the POST /negotiate stream has begun ends the
\* stream with exactly one error event with is_final = true, after every text
\* event already written and with no final event on the stream; so every
\* stream ends with exactly one is_final = true event, final or error.
C13_StreamEndsWithOneFinalMark ==
    (protocol = "http" /\ status_code = 200) =>
        /\ turn_pc = "closed" =>
              /\ events # << >>
              /\ FinalMarks(events) = { Len(events) }
              /\ events[Len(events)].type \in {"final", "error"}
        /\ turn_pc # "closed" => FinalMarks(events) = {}
        /\ \A k \in 1..Len(events) :
              events[k].type = "error" =>
                  /\ k = Len(events)
                  /\ turn_pc = "closed"
                  /\ events[k].is_final
                  /\ \A j \in 1..(k - 1) : events[j].type = "text"

\* a stream that failed after its first fragment
C13_Witness ==
    /\ protocol = "http"
    /\ turn_pc = "closed"
    /\ Len(events) = 2
    /\ events[1].type = "text"
    /\ events[2].type = "error"

\* nothing of a turn has happened: no agent, no LLM call, no event, no payment
NothingRun ==
    /\ agent = None
    /\ turn_input = None
    /\ llm_stream = << >>
    /\ full_response = << >>
    /\ events = << >>
    /\ payment_result = None
    /\ transfers = << >>

\* the table holds no row for the intent id
NoMatchingRow == SelectByUuid(table, INTENT_ID) = << >>

\* C14: POST /negotiate and POST /initiate for an intent id with no matching
\* row answer 404 (500 when the datastore call itself fails), and a lookup that
\* failed is answered before any agent is constructed, any LLM call or payment
\* is made, or any stream body is written.
C14_LookupFailureAnswersFirst ==
    /\ []( status_code \in {404, 500} => (turn_pc = "closed" /\ NothingRun) )
    /\ []( status_code = 404 => NoMatchingRow )
    /\ []( (protocol = "http" /\ NoMatchingRow /\ turn_pc = "closed") =>
              status_code \in {404, 500} )
    /\ []( initiate_status = 404 => (NoMatchingRow /\ NothingRun /\ seller_pitch = None) )
    /\ []( (NoMatchingRow /\ initiate_pc \notin {"received", "none"}) =>
              (initiate_pc = "done" /\ initiate_status \in {404, 500} /\ NothingRun) )
    /\ [][ (initiate_pc = "received" /\ initiate_pc' = "done") =>
              /\ initiate_status' \in {404, 500}
              /\ NothingRun'
              /\ request' = None
              /\ seller_pitch' = None ]_vars

\* /initiate has answered 404 for an intent that has no row
C14_Witness ==
    /\ initiate_pc = "done"
    /\ initiate_status = 404
    /\ NoMatchingRow
    /\ NothingRun

\* the row of the intent, when the table holds one
Row == table[1]

\* the last database-layer call made was op
LastCallWas(op) == last_call # None /\ last_call[1].op = op

\* C17: an intent is created with status live (by create_test_intent, and by
\* create_intent when no status is passed) and mark_intent_complete sets it to
\* completed; whatever database-layer, intent-service, negotiation-service or
\* orchestrator operation runs on an existing intent, a status that has become
\* completed never becomes live again.
C17_StatusOneDirectional ==
    /\ [][ (table # None /\ Row.status = "completed") =>
              (table' # None /\ Row'.status = "completed") ]_vars
    /\ [][ (table = None /\ table' # None) =>
              \/ LastCallWas("create_test_intent")' /\ Row'.status = "live"
              \/ /\ LastCallWas("create_intent")'
                 /\ Row'.status = IF last_call'[1].status = None THEN "live"
                                  ELSE last_call'[1].status[1] ]_vars
    /\ []( (LastCallWas("mark_intent_complete") /\ table # None) =>
              Row.status = "completed" )
    /\ []( table # None => Row.status \in {"live", "completed"} )

\* the intent was marked completed, and later calls have written to it
C17_Witness ==
    /\ table # None
    /\ Row.status = "completed"
    /\ LastCallWas("update_intent_with_transactions")
    /\ last_write # None

\* a step of the negotiation side: of a run, a turn, a payment or /initiate
NegotiationStep ==
    << orch_vars, turn_vars, transfers, initiate_vars >>' #
        << orch_vars, turn_vars, transfers, initiate_vars >>

\* C18: no negotiation-side operation (POST /negotiate, POST /initiate, the A2A
\* execute, execute_payment, run_negotiation) writes to the intent record, also
\* when a turn accepts and pays; only update_intent_with_transactions and
\* mark_intent_complete change an existing record, and neither changes
\* max_amount_usd.
C18_OnlyDatabaseLayerWrites ==
    /\ [][ NegotiationStep => UNCHANGED << table, last_call, last_write >> ]_vars
    /\ [][ (table # None /\ table' # table) =>
              /\ \/ LastCallWas("update_intent_with_transactions")'
                 \/ LastCallWas("mark_intent_complete")'
              /\ last_write' # None
              /\ table' # None
              /\ Row'.uuid = Row.uuid
              /\ Row'.max_amount_usd = Row.max_amount_usd ]_vars
    /\ []( (last_call = None /\ table # None) =>
              table = Some(LiveRow(INTENT_ID, intent.max_amount_usd)) )
    /\ []( table # None => Row.max_amount_usd = intent.max_amount_usd )

\* a run has ended on an accept that was paid and refunded, and the record is
\* as it was created
C18_Witness ==
    /\ pc = "done"
    /\ Len(transfers) = 2
    /\ \A k \in 1..2 : transfers[k].ok
    /\ last_call = None
    /\ table = Some(LiveRow(INTENT_ID, intent.max_amount_usd))

\* the argument of update_intent_with_transactions that goes to column f
HashArg(call, f) ==
    IF f = "tx_buyer_to_seller_id" THEN call.tx_buyer_to_seller
    ELSE call.tx_buyer_to_user

\* the table after update_intent_with_transactions, stated column by column:
\* a column whose hash was provided holds it, every other column is as before
UpdatedAsProvided(before, after, call) ==
    IF before = None THEN after = None
    ELSE /\ after # None
         /\ DOMAIN after[1] = DOMAIN before[1]
         /\ \A f \in DOMAIN before[1] :
               after[1][f] = IF f \in HashFields /\ Truthy(HashArg(call, f))
                             THEN HashArg(call, f)
                             ELSE before[1][f]

\* C19: update_intent_with_transactions writes exactly the hash fields that
\* were provided (a hash, not None or the empty string) and leaves every other
\* field unchanged: status, and a stored hash whose argument is absent; with
\* neither hash provided it issues no write at all. After it is called with a
\* hash, get_intent returns that hash in the corresponding field.
C19_UpdateWritesProvidedHashes ==
    /\ [][ ( /\ LastCallWas("update_intent_with_transactions")'
             /\ << table, last_call, last_write >>' # << table, last_call, last_write >> )
           => /\ UpdatedAsProvided(table, table', last_call'[1])
              /\ (last_write' = None) <=>
                    (\A f \in HashFields : ~Truthy(HashArg(last_call'[1], f)))
              /\ last_write' # None =>
                    DOMAIN last_write'[1] =
                        { f \in HashFields : Truthy(HashArg(last_call'[1], f)) } ]_vars
    /\ []( (LastCallWas("update_intent_with_transactions") /\ table # None) =>
              \A f \in HashFields :
                  Truthy(HashArg(last_call[1], f)) =>
                      /\ get_intent(table, INTENT_ID).raised = ""
                      /\ get_intent(table, INTENT_ID).row[f] = HashArg(last_call[1], f) )

\* the refund hash was linked by a call that passed no seller hash, and the
\* seller hash stored before is still there
C19_Witness ==
    /\ LastCallWas("update_intent_with_transactions")
    /\ last_call[1].tx_buyer_to_seller = None
    /\ last_call[1].tx_buyer_to_user = Some("0xcc")
    /\ table # None
    /\ Row.tx_buyer_to_seller_id = Some("0xaa")
    /\ Row.tx_buyer_to_user_id = Some("0xcc")
    /\ Row.status = "completed"

\* C20: on one LocusMCPClient used sequentially the k-th call_tool invocation
\* sends JSON-RPC request id k (the first id is 1), whether or not earlier
\* calls failed; ids are never reused and never decrease.
C20_RequestIdsCount ==
    /\ \A k \in 1..Len(rpc_log) : rpc_log[k].id = k
    /\ \A j, k \in 1..Len(rpc_log) : j < k => rpc_log[j].id < rpc_log[k].id
    /\ request_id = Len(rpc_log) + (IF rpc_pc = "entered" THEN 1 ELSE 0)

\* the third request was sent after the first raised and the second returned
C20_Witness ==
    /\ Len(rpc_log) = 3
    /\ rpc_log[1].outcome = "http_error"
    /\ rpc_log[2].outcome = "result"
    /\ rpc_log[3].id = 3

\* the turn in progress has got to execute_payment
PayingTurn ==
    /\ agent # None
    /\ decision # ""
    /\ PaymentTriggered(agent, decision)

\* C28: in one run_negotiation payment execution is triggered in at most one
\* round, the last of the run: a buyer turn that pays (decision accept or
\* reject) ends the run, and no round is started after a paying turn.
C28_PayingRoundIsLast ==
    /\ [][ (pc = "call" /\ PayingTurn /\ pc' # "call") =>
              (pc' = "done" /\ calls' = calls /\ result'[1].rounds = Len(calls)) ]_vars
    /\ [][ PayingTurn => calls' = calls ]_vars
    /\ [][ pc = "done" => (pc' = "done" /\ calls' = calls /\ transfers' = transfers) ]_vars
    /\ []( \A k \in 1..Len(transfers) :
              /\ transfers[k].round_num = Len(calls) - 1
              /\ calls[Len(calls)].agent_type = "buyer"
              /\ pc \in {"call", "done"} )

\* the buyer paid in the second round of a run, and the run has ended there
C28_Witness ==
    /\ pc = "done"
    /\ Len(calls) = 2
    /\ transfers # << >>
    /\ transfers[1].round_num = 1
    /\ result[1].rounds = 2

\* C29: in execute_payment on accept the refund is attempted only after the
\* transfer to the seller has returned; when that transfer fails no refund is
\* attempted; when the refund fails after it, the result is {error} alone,
\* without seller_payment or amount_paid, and the transfer to the seller
\* stays made: nothing is sent back.
C29_RefundAfterSellerTransfer ==
    /\ []( (turn_pc # "idle" /\ decision = "accept") =>
              LET made == TurnTransfers
              IN  /\ Len(made) <= 2
                  /\ turn_pc = "send_refund" => (Len(made) = 1 /\ made[1].ok)
                  /\ Len(made) >= 1 =>
                        made[1].address = environ.SELLER_AGENT_WALLET_ADDRESS
                  /\ (Len(made) >= 1 /\ ~made[1].ok) =>
                        /\ Len(made) = 1
                        /\ turn_pc \in {"final", "closed"}
                  /\ Len(made) = 2 =>
                        /\ made[1].ok
                        /\ made[2].address = environ.USER_WALLET_ADDRESS
                        /\ made[2].amount = Remaining(agent, made[1].amount)
                  /\ (Len(made) = 2 /\ ~made[2].ok) =>
                        /\ payment_result # None
                        /\ DOMAIN payment_result[1] = {"error"}
                        /\ turn_pc \in {"final", "closed"} )
    /\ [][ \A k \in 1..Len(transfers) :
              k <= Len(transfers') /\ transfers'[k] = transfers[k] ]_vars

\* the seller was paid and the refund then failed
C29_Witness ==
    /\ turn_pc = "closed"
    /\ decision = "accept"
    /\ Len(TurnTransfers) = 2
    /\ TurnTransfers[1].ok
    /\ ~TurnTransfers[2].ok
    /\ DOMAIN payment_result[1] = {"error"}

\* C27: for every intent with max_amount_usd = B a seller agent's min_amount is
\* 0.65 x B (15000.00 gives 9750.00, 10000.00 gives 6500.00), and min_amount
\* is at most max_budget for every B >= 0.
C27_SellerFloor ==
    (turn_pc = "constructed" /\ agent.agent_type = "seller") =>
        \* min_amount = 0.65 x B, written as min_amount / 13 = B / 20
        LET B == intent.max_amount_usd
        IN  /\ B >= 0
            /\ agent.max_budget = B
            /\ B % 20 = 0 /\ agent.min_amount % 13 = 0
            /\ agent.min_amount \div 13 = B \div 20
            /\ B = Dollars(15000, 0) => agent.min_amount = Dollars(9750, 0)
            /\ B = Dollars(10000, 0) => agent.min_amount = Dollars(6500, 0)
            /\ agent.min_amount <= agent.max_budget
            /\ ~agent.mcp_client

\* a seller built for the $15000.00 intent of the test has the floor $9750.00
C27_Witness ==
    /\ turn_pc = "constructed"
    /\ agent.agent_type = "seller"
    /\ intent.max_amount_usd = Dollars(15000, 0)
    /\ agent.min_amount = Dollars(9750, 0)

\* the value of the first data line of the reply in hand that holds a
\* well-formed JSON object (None when no line does)
FirstWellFormed == FirstWellFormedIn(mcp_response[1].lines)

\* C21: call_tool returns the result of the first well-formed JSON object found
\* in a 'data: ' line of the reply, skipping malformed data lines and ignoring
\* later lines; it fails when the status is not 200, when no data line holds
\* well-formed JSON, or when the parsed payload carries an error key, and in no
\* failing case is a result returned.
C21_FirstWellFormedObject ==
    [][ (rpc_pc = "replied" /\ rpc_pc' = "idle") =>
          LET entry == rpc_log'[Len(rpc_log')]
              fails == \/ mcp_response[1].status_code # 200
                       \/ FirstWellFormed = None
                       \/ "error" \in DOMAIN FirstWellFormed[1]
          IN  /\ fails => (entry.outcome # "result" /\ entry.returned = None)
              /\ ~fails =>
                    /\ entry.outcome = "result"
                    /\ entry.returned =
                          Some(IF "result" \in DOMAIN FirstWellFormed[1]
                               THEN FirstWellFormed[1].result
                               ELSE << >>) ]_vars

\* C22: POST /intent/{id}/update-transactions queries the block explorer and
\* writes to the intent only on a service configured as the buyer side; on a
\* service configured as seller it answers 403 with no explorer query and no
\* write, and when the tracker is unavailable it answers 501 with no write.
C22_UpdateOnlyOnBuyer ==
    [][ (endpoint_status = 0 /\ endpoint_status' # 0) =>
          /\ (explorer_queries' # explorer_queries \/ last_write' # None
                \/ table' # table) =>
                Lower(service.SERVICE_NAME) = "buyer"
          /\ (Lower(service.SERVICE_NAME) = "seller" /\ service.TRACKER_AVAILABLE) =>
                /\ endpoint_status' = 403
                /\ UNCHANGED << explorer_queries, store_vars >>
          /\ ~service.TRACKER_AVAILABLE =>
                /\ endpoint_status' = 501
                /\ UNCHANGED store_vars ]_vars

\* the request the capture service has just answered, and its status
LastHandled == capture_log[Len(capture_log)]

\* C25: POST /locus/image takes the image from the multipart file field if
\* present, else from the raw request body bytes if non-empty, else from the
\* JSON image_path; a JSON request whose only image source is image_path has
\* the image at that path saved to images/locus/image.png; a request from
\* which none of the three yields an image is answered 400 and writes nothing.
C25_ImageSources ==
    [][ (capture_log' # capture_log /\ LastHandled'.request.route = "/locus/image") =>
          LET req == LastHandled'.request
              status == LastHandled'.status
              has_file == "image" \in DOMAIN req.files
              is_json == req.mimetype = "application/json"
              has_bytes == ~is_json /\ req.data # ""
              has_path == is_json /\ "image_path" \in DOMAIN req.json
          IN  /\ (has_file /\ ImageOpen(req.files.image) # None) =>
                    (status = 200 /\ image_file' = ImageOpen(req.files.image))
              /\ (~has_file /\ has_bytes /\ ImageOpen(req.data) # None) =>
                    (status = 200 /\ image_file' = ImageOpen(req.data))
              /\ (~has_file /\ has_path /\ ImageOpen(req.json.image_path) # None) =>
                    (status = 200 /\ image_file' = ImageOpen(req.json.image_path))
              /\ (~has_file /\ ~has_bytes /\ ~has_path) =>
                    (status = 400 /\ image_file' = image_file) ]_vars

\* C26: a capture-service request that lacks the price is answered 400 and has
\* no external side effect: POST /locus/pay without price makes no payment call,
\* POST /locus/intent without price uploads no image and creates no intent.
C26_MissingPrice ==
    [][ (capture_log' # capture_log
           /\ LastHandled'.request.route \in {"/locus/intent", "/locus/pay"}
           /\ "price" \notin DOMAIN LastHandled'.request.json) =>
          /\ LastHandled'.status = 400
          /\ UNCHANGED << uploads, intents_created, payments >> ]_vars

\* the events hold a final event
HasFinal(evs) == \E k \in 1..Len(evs) : evs[k].type = "final"

\* negotiate is in execute_payment, between two transfers or before the first
InPayment == turn_pc \in {"send_seller", "send_refund", "send_full_refund"}

\* C30: in a buyer negotiate turn payment execution starts only after the LLM
\* stream has ended and completes before the final event is yielded; when the
\* LLM stream fails part-way, or the consumer stops reading before the stream
\* has ended, no transfer is made and no final event is produced.
C30_PaymentBetweenStreamAndFinal ==
    /\ [][ transfers' # transfers =>
              /\ InPayment
              /\ llm_stream = << >>
              /\ agent.agent_type = "buyer"
              /\ ~HasFinal(events)
              /\ events' = events ]_vars
    /\ []( InPayment => (llm_stream = << >> /\ ~HasFinal(events)) )
    /\ []( HasFinal(events) =>
              /\ turn_pc = "closed"
              /\ llm_stream = << >>
              /\ events[Len(events)].payment_result = payment_result )
    /\ []( (turn_pc = "closed" /\ (decision = "" \/ llm_stream # << >>)) =>
              (transfers = << >> /\ ~HasFinal(events)) )

\* the consumer of a buyer's stream stopped reading after the first fragment
C30_Witness ==
    /\ turn_pc = "closed"
    /\ status_code = 200
    /\ agent # None
    /\ agent.agent_type = "buyer"
    /\ agent.mcp_client
    /\ events = << TextEvent(TextPrice) >>
    /\ llm_stream = << TextAccept >>
    /\ transfers = << >>

\* the metadata of the A2A message in hand
RequestMetadata == request[1].metadata

\* C23: every A2A execute call that returns normally enqueues exactly one
\* response message. Without an intent_id in the metadata it is a descriptive
\* error text, and no agent is constructed and no LLM call or payment made;
\* otherwise the adapter (agent_type defaulting to buyer) runs exactly one
\* negotiate call with empty history, and the message is the content of the
\* chunk marked final.
C23_ExecuteEnqueuesOneMessage ==
    /\ []( protocol = "a2a" => Len(a2a_messages) <= 1 )
    /\ []( (protocol = "a2a" /\ request # None /\ turn_pc = "closed"
              /\ IntentIdOf(RequestMetadata) = "") =>
              (a2a_messages = << IntentIdRequired >> /\ NothingRun) )
    /\ []( (protocol = "a2a" /\ request # None /\ agent # None) =>
              /\ IntentIdOf(RequestMetadata) # ""
              /\ agent.agent_type = IF "agent_type" \in DOMAIN RequestMetadata
                                    THEN RequestMetadata.agent_type
                                    ELSE "buyer"
              /\ turn_input.conversation_history = << >>
              /\ turn_input.seller_message = request[1].message )
    /\ []( (protocol = "a2a" /\ request # None /\ IntentIdOf(RequestMetadata) # "") =>
              /\ HasFinal(events) =>
                    /\ Len(events) = Len(TextContents(events)) + 1
                    /\ a2a_messages = << events[Len(events)].content >>
              /\ a2a_messages # << >> => (HasFinal(events) /\ turn_pc = "closed") )
    /\ [][ (protocol = "a2a" /\ turn_pc = "closed" /\ turn_pc' = "closed") =>
              UNCHANGED << agent, turn_input, llm_stream, events, a2a_messages,
                           transfers >> ]_vars

\* a message without agent_type in its metadata was answered by a buyer turn
C23_Witness ==
    /\ protocol = "a2a"
    /\ request # None
    /\ DOMAIN RequestMetadata = {"intent_id"}
    /\ turn_pc = "closed"
    /\ agent # None
    /\ agent.agent_type = "buyer"
    /\ HasFinal(events)
    /\ a2a_messages = << full_response >>
    /\ full_response # << >>

\* C24: POST /initiate answers 200 with {seller_pitch, buyer_response,
\* buyer_decision} only when the buyer's stream delivered a final event, whose
\* content and decision they then are; every failure of the buyer call (no
\* connection, a status other than 200, an in-band error event) is answered 500.
C24_InitiateReportsBuyerFailure ==
    [][ (initiate_pc = "post" /\ initiate_pc' = "done") =>
          IF turn_pc = "closed" /\ status_code = 200 /\ HasFinal(events)
          THEN /\ initiate_status' = 200
               /\ initiate_result' =
                     Some([ seller_pitch |-> seller_pitch[1],
                            buyer_response |-> events[Len(events)].content,
                            buyer_decision |-> events[Len(events)].decision ])
          ELSE /\ initiate_status' = 500
               /\ initiate_result' = None ]_vars

\* the sum of the amounts of a sequence of transfers
RECURSIVE SumAmounts(_)
SumAmounts(made) ==
    IF made = << >> THEN 0 ELSE Head(made).amount + SumAmounts(Tail(made))

\* a buyer's turn that decided to pay and has ended or is in execute_payment
BuyerPaid ==
    /\ PayingTurn
    /\ turn_pc \in {"send_seller", "send_refund", "send_full_refund", "final", "closed"}

\* C31 as stated: in a buyer turn that called send_to_address the sum of the
\* amounts passed never exceeds the budget B; on accept it is B when the refund
\* is issued and the agreed amount, at least B - 0.01, when it is not; on reject
\* it is B.
C31_TurnSumAsStated ==
    (BuyerPaid /\ turn_pc = "closed" /\ TurnTransfers # << >>) =>
        LET B == agent.max_budget
            sum == SumAmounts(TurnTransfers)
        IN  /\ sum <= B
            /\ decision = "accept" =>
                  IF Len(TurnTransfers) = 2 THEN sum = B
                  ELSE sum = transaction_amount[1] /\ sum >= B - Cent
            /\ decision = "reject" => sum = B

\* C31, amended: the sum of the amounts a buyer turn passes to send_to_address
\* never exceeds the budget B. On accept it is B when the refund is issued and
\* the agreed amount when it is not; the agreed amount is then at least
\* B - 0.01 unless the transfer to the seller failed, in which case no refund
\* is attempted whatever remains. On reject it is B if a transfer is made at
\* all; nothing is sent without a payment client or wallet addresses.
C31_TurnSumWithinBudget ==
    /\ []( agent # None => SumAmounts(TurnTransfers) <= agent.max_budget )
    /\ []( (BuyerPaid /\ turn_pc = "closed") =>
              LET B == agent.max_budget
                  made == TurnTransfers
                  sum == SumAmounts(made)
                  configured ==
                      execute_payment_entry(agent, environ, decision, transaction_amount)
                          \in {"send_seller", "send_full_refund"}
              IN  /\ ~configured <=> made = << >>
                  /\ (configured /\ decision = "accept") =>
                        /\ Len(made) = 2 => sum = B
                        /\ Len(made) = 1 =>
                              /\ sum = transaction_amount[1]
                              /\ made[1].ok => sum >= B - Cent
                              /\ sum < B - Cent => ~made[1].ok
                  /\ (configured /\ decision = "reject") =>
                        (Len(made) = 1 /\ sum = B) )
    /\ []( (agent # None /\ ~PayingTurn) => TurnTransfers = << >> )

\* the transfer to the seller failed with more than a cent of the budget left:
\* the turn sent the agreed amount only
C31_Witness ==
    /\ BuyerPaid
    /\ turn_pc = "closed"
    /\ decision = "accept"
    /\ Len(TurnTransfers) = 1
    /\ ~TurnTransfers[1].ok
    /\ SumAmounts(TurnTransfers) < agent.max_budget - Cent

\* every entry of the history has the keys role and content and no other
PlainHistory(history) ==
    \A j \in 1..Len(history) : DOMAIN history[j] = {"role", "content"}

\* C32: every conversation history run_negotiation sends to an agent endpoint
\* consists only of entries with the keys role and content: an entry carrying
\* payment_result is appended only in the round that ends the run, so it is
\* never sent to an agent.
C32_HistorySentIsPlain ==
    /\ \A k \in 1..Len(calls) : PlainHistory(calls[k].conversation_history)
    /\ (request # None /\ protocol = "http") =>
          PlainHistory(request[1].conversation_history)
    /\ \A j \in 1..Len(conversation_history) :
          "payment_result" \in DOMAIN conversation_history[j] =>
              (pc = "done" /\ j = Len(conversation_history))
    /\ pc # "done" => PlainHistory(conversation_history)

\* the run ended on a buyer's entry with a payment result, after a round that
\* was sent a history of one entry
C32_Witness ==
    /\ pc = "done"
    /\ Len(calls) = 2
    /\ Len(calls[2].conversation_history) = 1
    /\ Len(conversation_history) = 2
    /\ "payment_result" \in DOMAIN conversation_history[2]
    /\ conversation_history[2].role = "buyer"

\* C35: when the decision is accept, _extract_transaction_amount returns the
\* first number, in text order, whose value is strictly greater than 0.01 and
\* at most max_budget; earlier candidates outside that range, and unparsable
\* ones, are skipped, and later qualifying candidates are ignored.
C35_FirstQualifyingNumber ==
    (turn_pc = "amount" /\ turn_input.decision = "accept") =>
        LET amounts == findall(turn_input.response)
            InRange(k) == /\ ParseAmount(amounts[k]) # None
                          /\ Cent < ParseAmount(amounts[k])[1]
                          /\ ParseAmount(amounts[k])[1] <= agent.max_budget
        IN  \A k \in 1..Len(amounts) :
                (InRange(k) /\ \A j \in 1..(k - 1) : ~InRange(j)) =>
                    transaction_amount = ParseAmount(amounts[k])

\* "$90?$100.00 " on a budget of $100.00: 90 is returned, the later 100.00 is
\* not
C35_Witness ==
    /\ turn_pc = "amount"
    /\ turn_input.decision = "accept"
    /\ turn_input.response = TextCounter \o TextPrice
    /\ agent.max_budget = Dollars(100, 0)
    /\ Len(findall(turn_input.response)) = 2
    /\ transaction_amount = Some(Dollars(90, 0))

\* C36: for every response text the decision the orchestrator derives on the
\* A2A path equals NegotiationAgent._extract_decision of the same text (accept
\* before reject, in any letter case, continue otherwise), and under the A2A
\* transport no conversation entry ever carries a payment_result.
C36_A2ADecisionAgrees ==
    /\ turn_pc = "a2a_decision" =>
          /\ Join(a2a_messages) = full_response
          /\ decision = extract_decision(full_response)
          /\ decision = "accept" <=> HasMarker(DECISION_ACCEPT, full_response)
          /\ decision = "continue" <=> ( /\ ~HasMarker(DECISION_ACCEPT, full_response)
                                         /\ ~HasMarker(DECISION_REJECT, full_response) )
    /\ (pc \in {"loop", "call", "done"} /\ protocol = "a2a") =>
          /\ PlainHistory(conversation_history)
          /\ \A k \in 1..Len(replies) : replies[k].payment_result = None
          /\ (pc = "done" /\ result # None) => PlainHistory(result[1].conversation)

\* a reply in two parts, the marker in lower case cut in two: still a reject
C36_Witness ==
    /\ turn_pc = "a2a_decision"
    /\ full_response = TextRejectLower
    /\ Len(a2a_messages[1]) = 8
    /\ decision = "reject"

\* a run over A2A ended by the buyer's accept, the buyer having paid
C36_WitnessRun ==
    /\ pc = "done"
    /\ protocol = "a2a"
    /\ transfers # << >>
    /\ result[1].outcome = "accepted"

\* C34: for two call_tool invocations interleaved on one LocusMCPClient (the
\* second starting while the first is suspended between advancing the counter
\* and building its request) the request ids in the two outgoing requests are
\* distinct.
C34_InterleavedIdsDistinct ==
    \A i, j \in 1..Len(rpc_log) : i # j => rpc_log[i].id # rpc_log[j].id

\* the explorer listed transactions for a lookup made with an expected amount
ListedWithExpected ==
    /\ tracker_call # None
    /\ tracker_call[1].api_key # ""
    /\ tracker_call[1].recipient # ""
    /\ tracker_call[1].status = "1"
    /\ tracker_call[1].expected # None

\* the places in the list of the transactions within 1% of the target t, the
\* expected amount in base units (given in tenths of one)
PlacesWithin(txs, t) ==
    { k \in 1..Len(txs) :
        (IF txs[k] * TenthsPerBaseUnit >= t THEN txs[k] * TenthsPerBaseUnit - t
                                            ELSE t - txs[k] * TenthsPerBaseUnit) * 100 < t }

\* the least number of a set of numbers that is not empty
Least(S) == CHOOSE k \in S : \A j \in S : k <= j

\* C37: get_latest_tx_to with expected_amount_usd = X returns the hash of the
\* first transaction, most recent first, whose value is within 1% relative
\* difference of X x 1,000,000 base units, and absent when no listed
\* transaction is; a transaction outside the tolerance is never returned.
C37_FirstWithinTolerance ==
    ListedWithExpected =>
        Eval(LAMBDA places :
                 tracker_call[1].returned =
                     IF places = { } THEN Absent
                     ELSE [ kind |-> "hash", hash |-> Least(places) ],
             PlacesWithin(tracker_call[1].txs, tracker_call[1].expected[1]))

\* the same for an expected amount of one base unit or more
C37_FirstWithinToleranceFromOneUnit ==
    (ListedWithExpected /\ tracker_call[1].expected[1] >= TenthsPerBaseUnit) =>
        Eval(LAMBDA places :
                 tracker_call[1].returned =
                     IF places = { } THEN Absent
                     ELSE [ kind |-> "hash", hash |-> Least(places) ],
             PlacesWithin(tracker_call[1].txs, tracker_call[1].expected[1]))

\* the second listed transaction is returned, the first being 1% off
C37_WitnessSecond ==
    /\ ListedWithExpected
    /\ tracker_call[1].txs = << 990, 1009 >>
    /\ tracker_call[1].returned = [ kind |-> "hash", hash |-> 2 ]

\* C38: after stop_server returns the tunnel launched by start_server is not
\* running: it was sent terminate and, when it had not exited within the 5
\* seconds, a forced kill; the stored handle is cleared, so a second
\* stop_server does not signal the tunnel again.
C38_TunnelStopped ==
    [][ stops' = stops + 1 =>
          /\ ngrok_process' = None
          /\ ngrok_process # None =>
                /\ ~procs'[TunnelPid].running
                /\ procs[TunnelPid].running =>
                      procs'[TunnelPid].signals =
                          procs[TunnelPid].signals
                              \o (IF procs[TunnelPid].stubborn
                                  THEN << "terminate", "kill" >> ELSE << "terminate" >>)
          /\ ngrok_process = None =>
                procs'[TunnelPid].signals = procs[TunnelPid].signals ]_vars

\* stop_server has returned twice; the tunnel, which did not exit on
\* terminate, got terminate and kill once
C38_Witness ==
    /\ stops = 2
    /\ server_port # 0
    /\ ngrok_process = None
    /\ ~procs[TunnelPid].running
    /\ procs[TunnelPid].signals = << "terminate", "kill" >>

\* C39: the sweep of stop_server stops every other local process still bound
\* to the port the service was started on by start_server(port), and signals
\* no process that is not bound to that port.
C39_SweepServicePort ==
    [][ (stops' = stops + 1 /\ server_port # 0) =>
          \A pid \in OtherPids :
              /\ (procs[pid].running /\ procs[pid].port = server_port) =>
                    (~procs'[pid].running /\ procs'[pid].signals # procs[pid].signals)
              /\ procs[pid].port # server_port =>
                    procs'[pid].signals = procs[pid].signals ]_vars

\* the same for a service started on the default port
C39_SweepDefaultPort ==
    [][ (stops' = stops + 1 /\ server_port = DefaultPort) =>
          \A pid \in OtherPids :
              /\ (procs[pid].running /\ procs[pid].port = server_port) =>
                    (~procs'[pid].running /\ procs'[pid].signals # procs[pid].signals)
              /\ procs[pid].port # server_port =>
                    procs'[pid].signals = procs[pid].signals ]_vars

\* the transfers turn t asked for, in their order
TransfersOf(t) == SelectSeq(transfers, LAMBDA x : x.round_num = t)

\* the transfers the gateway accepted
Accepted(made) == SelectSeq(made, LAMBDA x : x.ok)

\* C33: payment execution has no guard against a repeated payment: each of the
\* buyer turns for one intent that decides accept, whether the turns overlap
\* or follow each other, issues its own transfer to the seller and its own
\* refund, whatever the other turns have sent; the total sent for the intent
\* can reach twice max_budget.
C33_EachTurnPaysItsOwn ==
    \A t \in Turns :
        payers[t].pc = "done" =>
            LET made == TransfersOf(t)
                entry == IF PaymentTriggered(TurnAgent, payers[t].decision)
                         THEN execute_payment_entry(TurnAgent, environ, payers[t].decision,
                                                    payers[t].amount)
                         ELSE "return_none"
            IN  /\ entry = "send_seller" =>
                      /\ Len(made) >= 1
                      /\ made[1].address = environ.SELLER_AGENT_WALLET_ADDRESS
                      /\ made[1].amount = payers[t].amount[1]
                      /\ Len(made) = IF made[1].ok
                                        /\ intent.max_amount_usd - payers[t].amount[1] > Cent
                                     THEN 2 ELSE 1
                      /\ Len(made) = 2 =>
                            /\ made[2].address = environ.USER_WALLET_ADDRESS
                            /\ made[2].amount = intent.max_amount_usd - payers[t].amount[1]
                /\ entry = "send_full_refund" =>
                      /\ Len(made) = 1
                      /\ made[1].address = environ.USER_WALLET_ADDRESS
                      /\ made[1].amount = intent.max_amount_usd
                /\ entry \in {"return_none", "config_error"} => made = << >>

\* two turns for the intent have accepted and every transfer went through:
\* the buyer has sent twice the budget
C33_Witness ==
    /\ \A t \in Turns : payers[t].pc = "done" /\ payers[t].decision = "accept"
    /\ \A k \in 1..Len(transfers) : transfers[k].ok
    /\ Len(SelectSeq(transfers,
                     LAMBDA x : x.address = environ.SELLER_AGENT_WALLET_ADDRESS)) = MaxTurns
    /\ SumAmounts(transfers) = MaxTurns * intent.max_amount_usd

\* C15: in every round, on either transport, the agent turn run for the
\* current speaker receives the orchestrator's running conversation history.
C15_TurnReceivesHistory ==
    (pc = "call" /\ turn_input # None) =>
        turn_input.conversation_history = conversation_history

\* C16: when the agent call of a round fails (an error event on the stream,
\* or a status other than 200), run_negotiation makes no further agent call:
\* the failure ends the run.
C16_FailedCallEndsRun ==
    \A i \in 1..Len(replies) :
        replies[i].failed => (Len(calls) = i /\ pc = "done")

====
